---- MODULE Spec2Model ----
(***************************************************************************)
(* Model of the AdMaster backend (devs-vipul/admaster-backend).            *)
(*                                                                         *)
(*   CrawlSpec : one invocation of AdMasterContentCrawlerService.crawl     *)
(*               against a small web site.                                 *)
(*   Spec      : the REST handlers for campaign creation and brand         *)
(*               get / update / complete, run as concurrent requests over  *)
(*               the document store, with the external generative model    *)
(*               as an environment.                                        *)
(*                                                                         *)
(* A URL or href string is a sequence of tokens, e.g.                      *)
(*   "https://example.com/about#team" is                                   *)
(*   <<"https", ":", "//", "example.com", "/", "about", "#", "team">>.     *)
(***************************************************************************)
EXTENDS Integers, Sequences, FiniteSets, TLC

VARIABLES
    \* ---- AdMasterContentCrawlerService instance and crawl() locals ----
    seed,             \* start_url argument of crawl()
    site,             \* the web site as far as fetched: page path -> hrefs
    max_pages,        \* self.max_pages
    max_depth,        \* self.max_depth
    visited_urls,     \* self.visited_urls
    crawled_content,  \* self.crawled_content (the 'url' of each page record)
    base_domain,      \* self.base_domain
    start_url,        \* local start_url after the HTTPS upgrade
    queue,            \* local queue of <<url, depth>>
    cur,              \* the dequeued <<url, depth>> being fetched
    crawl_pc,         \* position inside crawl()
    fetch_log,        \* history: every client.get(url) issued, in order
    fetch_failed,     \* history: some fetch raised
    enqueued,         \* history: every discovered link appended to the queue
    since_fetch,      \* history: what followed the last client.get: "none" before the
                      \* first request, "fetched" once issued, "slept" after the delay
    crawl_result,     \* the returned dictionary
    earlier,          \* the dictionaries returned by earlier crawl() calls on this instance
    \* ---- document store, environment and requests ----
    businesses,       \* collection "businesses"
    brands,           \* collection "brands"
    campaigns,        \* collection "campaigns"
    users,            \* collection "users"
    env,              \* process environment variables / import state
    db,               \* the Database manager: lifecycle and registered document models
    reqs,             \* in-flight and finished HTTP requests
    \* ---- AdMasterCrawlerService.crawl (brand intel from one page) ----
    page,             \* the document served at the website URL, and langdetect's answer
    intel_pc,         \* position inside AdMasterCrawlerService.crawl
    intel_result,     \* the CrawlResult returned
    \* ---- one call of _is_valid_url(url, base_url) ----
    candidate,        \* the arguments url and base_url
    verdict           \* the value returned: "True" or "False", "none" before the return

crawlVars == <<seed, site, max_pages, max_depth, visited_urls, crawled_content,
               base_domain, start_url, queue, cur, crawl_pc, fetch_log,
               fetch_failed, enqueued, since_fetch, crawl_result, earlier>>
apiVars == <<businesses, brands, campaigns, users, env, db, reqs>>
intelVars == <<page, intel_pc, intel_result>>
admitVars == <<candidate, verdict>>
vars == <<crawlVars, apiVars, intelVars, admitVars>>

(***************************************************************************)
(* Bounds                                                                  *)
(***************************************************************************)
MaxPagesBound == 4      \* max_pages ranges over 0..MaxPagesBound
MaxDepthBound == 2      \* max_depth ranges over 0..MaxDepthBound
MaxLinks == 2           \* crawlable links per page of the site
MaxCalls == 2           \* crawl() calls made on one crawler instance
MaxRecs == 2            \* entries in the model's all_recommendations list

(***************************************************************************)
(* Sequence helpers                                                        *)
(***************************************************************************)
Min(a, b) == IF a <= b THEN a ELSE b

SeqToSet(s) == {s[i] : i \in 1..Len(s)}

\* index of the first occurrence of token t in s, 0 when absent (str.find)
IndexOf(s, t) ==
    IF \E i \in 1..Len(s) : s[i] = t
    THEN CHOOSE i \in 1..Len(s) : s[i] = t /\ \A j \in 1..(i-1) : s[j] # t
    ELSE 0

\* s[:i-1] and s[i+1:] around position i
Before(s, i) == SubSeq(s, 1, i - 1)
After(s, i) == SubSeq(s, i + 1, Len(s))

\* sub occurs in s as a contiguous run (Python: sub in s)
Contains(s, sub) ==
    \E i \in 1..(Len(s) - Len(sub) + 1) : SubSeq(s, i, i + Len(sub) - 1) = sub

\* all orders in which the elements of a set can be iterated
Orders(S) ==
    {f \in [1..Cardinality(S) -> S] : \A i, j \in 1..Cardinality(S) : f[i] = f[j] => i = j}

(***************************************************************************)
(* URL text                                                                *)
(***************************************************************************)
\* str.lower() on one token
LowerTok(t) ==
    CASE t = "HTTP" -> "http"
      [] t = "HTTPS" -> "https"
      [] t = "Login" -> "login"
      [] t = ".PDF" -> ".pdf"
      [] OTHER -> t

Lower(s) == [i \in 1..Len(s) |-> LowerTok(s[i])]

\* tokens that can be a scheme (letters only)
SchemeTokens == {"https", "http", "HTTP", "HTTPS", "ftp", "mailto", "javascript"}

\* urlparse, last step: what is left is "//netloc" followed by the path, or
\* the path alone
SplitAuthority(scheme, rest, query, fragment) ==
    LET hasNetloc == Len(rest) >= 1 /\ rest[1] = "//"
        netloc == IF hasNetloc /\ Len(rest) >= 2 /\ rest[2] # "/" THEN rest[2] ELSE ""
    IN [scheme |-> scheme,
        netloc |-> netloc,
        path |-> IF ~hasNetloc THEN rest
                 ELSE IF netloc = "" THEN SubSeq(rest, 2, Len(rest))
                 ELSE SubSeq(rest, 3, Len(rest)),
        query |-> query,
        fragment |-> fragment]

\* urlparse, third step: the query is what follows the first "?"
SplitQuery(scheme, rest, fragment) ==
    LET qm == IndexOf(rest, "?")
    IN  SplitAuthority(scheme,
                       IF qm = 0 THEN rest ELSE Before(rest, qm),
                       IF qm = 0 THEN <<>> ELSE After(rest, qm),
                       fragment)

\* urlparse, second step: the fragment is what follows the first "#"
SplitFragment(scheme, rest) ==
    LET hash == IndexOf(rest, "#")
    IN  SplitQuery(scheme,
                   IF hash = 0 THEN rest ELSE Before(rest, hash),
                   IF hash = 0 THEN <<>> ELSE After(rest, hash))

\* urllib.parse.urlparse: scheme lowercased, netloc, path, query, fragment
urlparse(url) ==
    LET hasScheme == Len(url) >= 2 /\ url[2] = ":" /\ url[1] \in SchemeTokens
    IN  SplitFragment(IF hasScheme THEN LowerTok(url[1]) ELSE "",
                      IF hasScheme THEN SubSeq(url, 3, Len(url)) ELSE url)

\* urllib.parse.urlunparse
urlunparse(p) ==
    (IF p.scheme # "" THEN <<p.scheme, ":">> ELSE <<>>)
    \o (IF p.netloc # "" THEN <<"//", p.netloc>> ELSE <<>>)
    \o p.path
    \o (IF p.query # <<>> THEN <<"?">> \o p.query ELSE <<>>)
    \o (IF p.fragment # <<>> THEN <<"#">> \o p.fragment ELSE <<>>)

\* urljoin on the parsed base b and the parsed reference h
JoinParsed(base, href, b, h) ==
    IF href = <<>> THEN base
    ELSE IF h.scheme # "" /\ h.scheme # b.scheme THEN href
    ELSE IF h.scheme \notin {"", "http", "https", "ftp"} THEN href
    ELSE IF h.netloc # "" THEN
        urlunparse([h EXCEPT !.scheme = b.scheme])
    ELSE IF h.path = <<>> THEN
        urlunparse([b EXCEPT !.query = IF h.query = <<>> THEN b.query ELSE h.query,
                             !.fragment = h.fragment])
    ELSE
        urlunparse([h EXCEPT !.scheme = b.scheme, !.netloc = b.netloc])

\* urllib.parse.urljoin for absolute URLs, network-path references ("//host/x"),
\* root-relative paths ("/x"), query-only and fragment-only references
urljoin(base, href) == JoinParsed(base, href, urlparse(base), urlparse(href))

(***************************************************************************)
(* AdMasterContentCrawlerService._is_valid_url                             *)
(***************************************************************************)
skip_extensions == {".pdf", ".jpg", ".jpeg", ".png", ".gif", ".svg", ".css",
                    ".js", ".zip", ".exe", ".mp4", ".mp3", ".avi", ".mov"}

skip_paths == {<<"/", "login">>, <<"/", "signup">>, <<"/", "logout">>,
               <<"/", "admin">>, <<"/", "api">>, <<"/", "cdn">>,
               <<"/", "static">>, <<"/", "assets">>, <<"/", "wp-admin">>,
               <<"/", "wp-content">>}

\* a token cut where a denylisted text can begin or end inside it
Cut(t) ==
    CASE t = "//" -> <<"/", "/">>
      [] t = "cdn.example.com" -> <<"cdn", ".example.com">>
      [] OTHER -> <<t>>

\* the text of a URL, cut finely enough for `path in url.lower()`
RECURSIVE UrlText(_)
UrlText(url) == IF url = <<>> THEN <<>> ELSE Cut(Head(url)) \o UrlText(Tail(url))

\* line 62: any(path in url.lower() for path in skip_paths)
HasSkipPath(text) == \E p \in skip_paths : Contains(text, p)

\* variant: the same-domain comparison (lines 52-54) is left out
is_valid_url_any_domain(url, base_url) ==
    LET parsed == urlparse(url)
    IN  IF ":" \notin SeqToSet(url) THEN FALSE
        ELSE IF parsed.scheme # "" /\ parsed.scheme # "https" THEN FALSE
        ELSE IF parsed.netloc = "" THEN FALSE
        ELSE IF Len(url) >= 1 /\ LowerTok(url[Len(url)]) \in skip_extensions THEN FALSE
        ELSE IF HasSkipPath(UrlText(Lower(url))) THEN FALSE
        ELSE TRUE

is_valid_url(url, base_url) ==
    LET parsed == urlparse(url)
        base_parsed == urlparse(base_url)
    IN  IF ":" \notin SeqToSet(url) THEN FALSE
        ELSE IF parsed.scheme # "" /\ parsed.scheme # "https" THEN FALSE
        ELSE IF parsed.netloc = "" THEN FALSE
        ELSE IF parsed.netloc # base_parsed.netloc THEN FALSE
        ELSE IF Len(url) >= 1 /\ LowerTok(url[Len(url)]) \in skip_extensions THEN FALSE
        ELSE IF HasSkipPath(UrlText(Lower(url))) THEN FALSE
        ELSE TRUE

(***************************************************************************)
(* AdMasterContentCrawlerService._extract_internal_links                   *)
(***************************************************************************)
\* line 85: absolute_url.split('#')[0]
RemoveFragment(url) ==
    LET hash == IndexOf(url, "#")
    IN  IF hash = 0 THEN url ELSE Before(url, hash)

\* line 91: a URL without scheme is rebuilt as https://netloc-or-domain/path?query
EnsureHttps(absolute_url, parsed, domain) ==
    IF parsed.scheme = ""
    THEN <<"https", ":", "//", (IF parsed.netloc # "" THEN parsed.netloc ELSE domain)>>
         \o parsed.path
         \o (IF parsed.query # <<>> THEN <<"?">> \o parsed.query ELSE <<>>)
    ELSE absolute_url

\* lines 96-102: the colon check and _is_valid_url decide whether the URL is kept
KeepValid(absolute_url, base_url) ==
    IF ":" \notin SeqToSet(absolute_url) THEN {}
    ELSE IF is_valid_url(absolute_url, base_url) THEN {absolute_url}
    ELSE {}

\* lines 87-102 on the joined, fragment-free URL and its parse
LinkOfParsed(absolute_url, parsed, base_url, domain) ==
    IF parsed.scheme # "" /\ parsed.scheme # "https" THEN {}
    ELSE KeepValid(EnsureHttps(absolute_url, parsed, domain), base_url)

\* lines 87-102 on the joined, fragment-free URL
LinkOfAbsolute(absolute_url, base_url, domain) ==
    LinkOfParsed(absolute_url, urlparse(absolute_url), base_url, domain)

\* the link one <a href> contributes: {} when skipped, else {absolute_url}
LinkOf(href, base_url, domain) ==
    IF href = <<>> THEN {}
    ELSE LinkOfAbsolute(RemoveFragment(urljoin(base_url, href)), base_url, domain)

extract_internal_links(hrefs, base_url, domain) ==
    UNION {LinkOf(h, base_url, domain) : h \in hrefs}

(***************************************************************************)
(* The web site the crawler is pointed at (environment)                    *)
(***************************************************************************)
HomePath == <<"/">>
Pages == {HomePath, <<"/", "about">>, <<"/", "pricing">>}

\* hrefs that lead to the site's pages, one spelling per page
CrawlHrefs == {<<"/">>,
               <<"/", "about">>,
               <<"https", ":", "//", "example.com", "/", "pricing", "#", "plans">>}

\* hrefs every page carries besides: a self link, a plain-http link, links to
\* another host, a mailto link, a login link, a document and an empty href
NoiseHrefs == {<<"#", "top">>,
               <<"http", ":", "//", "example.com", "/", "about">>,
               <<"https", ":", "//", "other.com", "/">>,
               <<"//", "other.com", "/", "about">>,
               <<"mailto", ":", "team@example.com">>,
               <<"/", "Login">>,
               <<"/", "brochure", ".pdf">>,
               <<>>}

LinkSets == {c \cup NoiseHrefs : c \in {d \in SUBSET CrawlHrefs : Cardinality(d) <= MaxLinks}}

SeedInputs == {<<"https", ":", "//", "example.com", "/">>,
               <<"http", ":", "//", "example.com", "/">>,
               <<"HTTP", ":", "//", "example.com", "/">>,
               <<"ftp", ":", "//", "example.com", "/">>,
               <<"example.com">>}

\* the page a URL is served from ("" and "/" are the home page)
PageKey(url) ==
    LET p == urlparse(url).path IN IF p = <<>> THEN HomePath ELSE p

\* the hrefs of the <a> tags in the document fetched from url; the site
\* settles a page's content on its first fetch and keeps it from then on
HrefsAt(url) ==
    IF PageKey(url) \in DOMAIN site THEN site[PageKey(url)] ELSE {}

\* the documents a fetch of url can return
DocumentsAt(url) ==
    IF PageKey(url) \in DOMAIN site THEN {site[PageKey(url)]}
    ELSE IF PageKey(url) \in Pages THEN LinkSets
    ELSE {NoiseHrefs}

\* the site once the page at url has been served with these hrefs
Served(url, hrefs) ==
    [p \in DOMAIN site \cup {PageKey(url)} |->
        IF p = PageKey(url) THEN hrefs ELSE site[p]]

\* httpx can request http and https URLs only
Fetchable(url) == urlparse(url).scheme \in {"http", "https"}

(***************************************************************************)
(* AdMasterContentCrawlerService.crawl                                     *)
(***************************************************************************)
\* lines 164-169: force the start URL to HTTPS
UpgradeStartUrl(s) ==
    LET parsed_start == urlparse(s)
        at == CHOOSE i \in 0..Len(s) :
                /\ (i = 0 => ~Contains(s, <<"http", ":", "//">>))
                /\ (i > 0 => /\ i + 2 <= Len(s)
                             /\ SubSeq(s, i, i + 2) = <<"http", ":", "//">>
                             /\ \A j \in 1..(i-1) :
                                  ~(j + 2 <= Len(s) /\ SubSeq(s, j, j + 2) = <<"http", ":", "//">>))
    IN  IF parsed_start.scheme = ""
        THEN <<"https", ":", "//">>
             \o (IF parsed_start.netloc # "" THEN <<parsed_start.netloc>> ELSE parsed_start.path)
        ELSE IF parsed_start.scheme # "https"
        THEN (IF at = 0 THEN s ELSE [s EXCEPT ![at] = "https"])
        ELSE s

CrawlInit ==
    /\ seed \in SeedInputs
    /\ site = <<>>
    /\ max_pages \in 0..MaxPagesBound
    /\ max_depth \in 0..MaxDepthBound
    /\ visited_urls = {}
    /\ crawled_content = <<>>
    /\ base_domain = ""
    /\ start_url = <<>>
    /\ queue = <<>>
    /\ cur = <<>>
    /\ crawl_pc = "start"
    /\ fetch_log = <<>>
    /\ fetch_failed = FALSE
    /\ enqueued = {}
    /\ since_fetch = "none"
    /\ crawl_result = [returned |-> FALSE]
    /\ earlier = <<>>

\* lines 163-180: normalise the seed, reset the instance state, seed the queue
CrawlBegin ==
    /\ crawl_pc = "start"
    /\ \E s \in {UpgradeStartUrl(seed)} :
         IF ":" \notin SeqToSet(s)
         THEN /\ crawl_pc' = "raised"
              /\ UNCHANGED <<start_url, base_domain, visited_urls, crawled_content, queue>>
         ELSE /\ start_url' = s
              /\ base_domain' = urlparse(s).netloc
              /\ visited_urls' = {}
              /\ crawled_content' = <<>>
              /\ queue' = << <<s, 0>> >>
              /\ crawl_pc' = "loop"
    /\ UNCHANGED <<apiVars, intelVars, admitVars>>
    /\ UNCHANGED <<seed, site, max_pages, max_depth, cur, fetch_log, fetch_failed,
                   enqueued, crawl_result,
                   since_fetch, earlier>>

\* variant: the loop runs while the queue has items, whatever was visited
LoopCondition_ignores_cap == queue # <<>>

\* variant: the page cap compared with <= instead of <
LoopCondition_off_by_one == queue # <<>> /\ Cardinality(visited_urls) <= max_pages

\* line 183: the while condition
LoopCondition == queue # <<>> /\ Cardinality(visited_urls) < max_pages

\* variant: a visited or too-deep item is passed over without being dequeued
CrawlSkip_keeps_item ==
    /\ crawl_pc = "loop"
    /\ LoopCondition
    /\ LET url == Head(queue)[1]
           depth == Head(queue)[2]
       IN  /\ (url \in visited_urls \/ depth > max_depth)
           /\ queue' = queue
    /\ UNCHANGED <<apiVars, intelVars, admitVars>>
    /\ UNCHANGED <<seed, site, max_pages, max_depth, visited_urls, crawled_content,
                   base_domain, start_url, cur, crawl_pc, fetch_log, fetch_failed,
                   enqueued, crawl_result, since_fetch, earlier>>

\* lines 184-188: dequeue an item that is already visited or too deep
CrawlSkip ==
    /\ crawl_pc = "loop"
    /\ LoopCondition
    /\ LET url == Head(queue)[1]
           depth == Head(queue)[2]
       IN  /\ (url \in visited_urls \/ depth > max_depth)
           /\ queue' = Tail(queue)
    /\ UNCHANGED <<apiVars, intelVars, admitVars>>
    /\ UNCHANGED <<seed, site, max_pages, max_depth, visited_urls, crawled_content,
                   base_domain, start_url, cur, crawl_pc, fetch_log, fetch_failed,
                   enqueued, crawl_result,
                   since_fetch, earlier>>

\* lines 184-192: dequeue an item and issue client.get(url)
CrawlGet ==
    /\ crawl_pc = "loop"
    /\ LoopCondition
    /\ LET url == Head(queue)[1]
           depth == Head(queue)[2]
       IN  /\ ~(url \in visited_urls \/ depth > max_depth)
           /\ queue' = Tail(queue)
           /\ cur' = Head(queue)
           /\ fetch_log' = Append(fetch_log, url)
    /\ crawl_pc' = "get"
    /\ since_fetch' = "fetched"
    /\ UNCHANGED <<apiVars, intelVars, admitVars>>
    /\ UNCHANGED <<seed, site, max_pages, max_depth, visited_urls, crawled_content,
                   base_domain, start_url, fetch_failed, enqueued, crawl_result, earlier>>

\* lines 205-208: the links not yet visited, appended in set-iteration order
NewLinks(hrefs, url, visited) ==
    {l \in extract_internal_links(hrefs, url, base_domain) : l \notin visited}

\* variant: links are enqueued from pages at any depth
CrawlFetchOk_any_depth ==
    /\ crawl_pc = "get"
    /\ Fetchable(cur[1])
    /\ \E hrefs \in DocumentsAt(cur[1]) :
         LET url == cur[1]
             depth == cur[2]
             visited == visited_urls \cup {url}
             links == NewLinks(hrefs, url, visited)
         IN  /\ site' = Served(url, hrefs)
             /\ crawled_content' = Append(crawled_content, url)
             /\ visited_urls' = visited
             /\ \E order \in Orders(links) :
                  queue' = queue \o [i \in 1..Cardinality(links) |-> <<order[i], depth + 1>>]
             /\ enqueued' = enqueued \cup links
    /\ crawl_pc' = "sleep"
    /\ UNCHANGED <<apiVars, intelVars, admitVars>>
    /\ UNCHANGED <<seed, max_pages, max_depth, base_domain, start_url, cur,
                   fetch_log, fetch_failed, crawl_result,
                   since_fetch, earlier>>

\* lines 193-211: the response arrived; record the page, enqueue its links
CrawlFetchOk ==
    /\ crawl_pc = "get"
    /\ Fetchable(cur[1])
    /\ \E hrefs \in DocumentsAt(cur[1]) :
         LET url == cur[1]
             depth == cur[2]
             visited == visited_urls \cup {url}
             links == IF depth < max_depth THEN NewLinks(hrefs, url, visited) ELSE {}
         IN  /\ site' = Served(url, hrefs)
             /\ crawled_content' = Append(crawled_content, url)
             /\ visited_urls' = visited
             /\ \E order \in Orders(links) :
                  queue' = queue \o [i \in 1..Cardinality(links) |-> <<order[i], depth + 1>>]
             /\ enqueued' = enqueued \cup links
    /\ crawl_pc' = "sleep"
    /\ UNCHANGED <<apiVars, intelVars, admitVars>>
    /\ UNCHANGED <<seed, max_pages, max_depth, base_domain, start_url, cur,
                   fetch_log, fetch_failed, crawl_result,
                   since_fetch, earlier>>

\* variant: the exception leaves crawl()
CrawlFetchError_propagates ==
    /\ crawl_pc = "get"
    /\ fetch_failed' = TRUE
    /\ crawl_pc' = "raised"
    /\ UNCHANGED <<apiVars, intelVars, admitVars>>
    /\ UNCHANGED <<seed, site, max_pages, max_depth, visited_urls, crawled_content,
                   base_domain, start_url, queue, cur, fetch_log, enqueued, crawl_result,
                   since_fetch, earlier>>

\* lines 213-215: the fetch or the parse raised; the URL is skipped
CrawlFetchError ==
    /\ crawl_pc = "get"
    /\ fetch_failed' = TRUE
    /\ crawl_pc' = "loop"
    /\ UNCHANGED <<apiVars, intelVars, admitVars>>
    /\ UNCHANGED <<seed, site, max_pages, max_depth, visited_urls, crawled_content,
                   base_domain, start_url, queue, cur, fetch_log, enqueued, crawl_result,
                   since_fetch, earlier>>

\* line 211: asyncio.sleep(0.5) completed
CrawlSleepDone ==
    /\ crawl_pc = "sleep"
    /\ crawl_pc' = "loop"
    /\ since_fetch' = "slept"
    /\ UNCHANGED <<apiVars, intelVars, admitVars>>
    /\ UNCHANGED <<seed, site, max_pages, max_depth, visited_urls, crawled_content,
                   base_domain, start_url, queue, cur, fetch_log, fetch_failed,
                   enqueued, crawl_result, earlier>>

\* lines 217-228: the loop ended; aggregate and return
CrawlReturn ==
    /\ crawl_pc = "loop"
    /\ ~LoopCondition
    /\ crawl_result' = [returned |-> TRUE,
                        base_url |-> start_url,
                        pages_crawled |-> Len(crawled_content),
                        pages |-> crawled_content]
    /\ crawl_pc' = "done"
    /\ UNCHANGED <<apiVars, intelVars, admitVars>>
    /\ UNCHANGED <<seed, site, max_pages, max_depth, visited_urls, crawled_content,
                   base_domain, start_url, queue, cur, fetch_log, fetch_failed, enqueued,
                   since_fetch, earlier>>

\* crawl() is called again on the same instance after the previous call
\* returned: the caller keeps the dictionary it got, the instance keeps its
\* fields (lines 28-32), and the new call starts with its own locals
CrawlAgain ==
    /\ crawl_pc = "done"
    /\ Len(earlier) + 1 < MaxCalls
    /\ earlier' = Append(earlier, crawl_result)
    /\ seed' \in SeedInputs
    /\ start_url' = <<>>
    /\ queue' = <<>>
    /\ cur' = <<>>
    /\ crawl_pc' = "start"
    /\ fetch_log' = <<>>
    /\ fetch_failed' = FALSE
    /\ enqueued' = {}
    /\ since_fetch' = "none"
    /\ crawl_result' = [returned |-> FALSE]
    /\ UNCHANGED <<apiVars, intelVars, admitVars>>
    /\ UNCHANGED <<site, max_pages, max_depth, visited_urls, crawled_content, base_domain>>

\* line 225: 'pages' holds self.crawled_content itself, the list object the
\* instance goes on clearing (line 177) and appending to (line 200)
PagesOf(result) == crawled_content

CrawlNext ==
    \/ CrawlBegin
    \/ CrawlSkip
    \/ CrawlGet
    \/ CrawlFetchOk
    \/ CrawlFetchError
    \/ CrawlSleepDone
    \/ CrawlReturn

(***************************************************************************)
(* Document store contents and request inputs                              *)
(***************************************************************************)
ReqIds == {"r1", "r2"}
UserIds == {"u1", "u2"}
BusinessIds == {"b1", "b2"}          \* "b2" matches no Business record

\* platform_id values of the seeded Platform catalog
PlatformCatalog == {0, 1, 2, 3, 4, 8, 10, 17, 18, 19, 20}

\* platform ids the generative model may cite; 5 is in no catalog entry
AiIds == {1, 2, 5}

ConversionGoals == {"website-traffic", "brand-awareness", "online-leads", "online-sales"}

\* (advertising_goal, conversion_goal) of a CampaignCreate body; "None" is None
GoalInputs == {[advertising_goal |-> "online-sales", conversion_goal |-> "None"],
               [advertising_goal |-> "bogus", conversion_goal |-> "brand-awareness"],
               [advertising_goal |-> "", conversion_goal |-> "brand-awareness"],
               [advertising_goal |-> "None", conversion_goal |-> "online-leads"],
               [advertising_goal |-> "website-traffic", conversion_goal |-> "online-leads"],
               [advertising_goal |-> "None", conversion_goal |-> "None"]}
NoGoal == [advertising_goal |-> "None", conversion_goal |-> "None"]

\* BrandUpdate bodies after model_dump(exclude_unset=True)
BrandUpdates == {[description |-> "edited"], [is_complete |-> TRUE]}
NoData == [description |-> ""]

\* the process environment: which variables are set, whether google-genai imports
Envs == {[GEMINI_AVAILABLE |-> TRUE,  GOOGLE_API_KEY |-> TRUE,  GEMINI_API_KEY |-> FALSE,
          GEMINI_MODEL |-> TRUE,  DEFAULT_MODEL |-> FALSE],
         [GEMINI_AVAILABLE |-> TRUE,  GOOGLE_API_KEY |-> FALSE, GEMINI_API_KEY |-> TRUE,
          GEMINI_MODEL |-> FALSE, DEFAULT_MODEL |-> TRUE],
         [GEMINI_AVAILABLE |-> TRUE,  GOOGLE_API_KEY |-> FALSE, GEMINI_API_KEY |-> FALSE,
          GEMINI_MODEL |-> TRUE,  DEFAULT_MODEL |-> FALSE],
         [GEMINI_AVAILABLE |-> TRUE,  GOOGLE_API_KEY |-> TRUE,  GEMINI_API_KEY |-> FALSE,
          GEMINI_MODEL |-> FALSE, DEFAULT_MODEL |-> FALSE],
         [GEMINI_AVAILABLE |-> FALSE, GOOGLE_API_KEY |-> TRUE,  GEMINI_API_KEY |-> FALSE,
          GEMINI_MODEL |-> TRUE,  DEFAULT_MODEL |-> FALSE]}

\* os.getenv("GOOGLE_API_KEY") or os.getenv("GEMINI_API_KEY")
api_key(e) == e.GOOGLE_API_KEY \/ e.GEMINI_API_KEY

\* variant: a built-in model name stands in when neither variable is set
model_name_with_default(e) == TRUE

\* os.getenv("GEMINI_MODEL") or os.getenv("DEFAULT_MODEL")
model_name(e) == e.GEMINI_MODEL \/ e.DEFAULT_MODEL

(***************************************************************************)
(* Responses of the generative model                                       *)
(* A JSON object is a function from its keys to its values; a score is in  *)
(* tenths (8 is 0.8, 15 is 1.5).                                           *)
(***************************************************************************)
Drop(f, k) == [x \in DOMAIN f \ {k} |-> f[x]]

Entry(p, s) == [platform_id |-> p, name |-> "platform", score |-> s]
EntryKeys == {"platform_id", "name", "score"}

Entries == {Entry(p, 8) : p \in AiIds}
           \cup {Entry(1, 15)}
           \cup {Drop(Entry(2, 8), k) : k \in EntryKeys}

RecLists == UNION {[1..n -> Entries] : n \in 0..MaxRecs}

Answer(p, recs) ==
    [recommended_platform_id |-> p,
     recommended_platform_name |-> "platform",
     ai_reasoning |-> "because",
     all_recommendations |-> recs,
     ai_analysis |-> "analysis"]
TopKeys == {"recommended_platform_id", "recommended_platform_name", "ai_reasoning",
            "all_recommendations", "ai_analysis"}

GoodAnswer == Answer(1, <<Entry(1, 8), Entry(2, 8)>>)

JsonObjects == {Answer(p, recs) : p \in AiIds, recs \in RecLists}
               \cup {Drop(GoodAnswer, k) : k \in TopKeys}

\* the markdown code fence (three backticks), bare and with the json tag
Fence == "<fence>"
FenceJson == "<fence>json"

\* response.text: an optional leading and trailing decoration around a body
\* that is a JSON object ("object"), a JSON array ("array") or no JSON at all
Object(o) == [kind |-> "object", val |-> {o}]
Garbage == [kind |-> "garbage", val |-> {}]
Array == [kind |-> "array", val |-> {}]
Text(pre, b, suf) == [prefix |-> pre, body |-> b, suffix |-> suf]

ResponseTexts ==
    {Text("", Object(o), "") : o \in JsonObjects}
    \cup {Text("", Garbage, ""), Text("", Array, "")}
    \cup {Text(pre, b, Fence) : pre \in {FenceJson, Fence}, b \in {Object(GoodAnswer), Garbage}}
    \cup {Text("Here you go: ", Object(GoodAnswer), "")}

(***************************************************************************)
(* What a response text is like, judged against the schema the prompt      *)
(* mandates (ai_platform_analyzer.py lines 437-458); kept as the history   *)
(* of a request                                                            *)
(***************************************************************************)
\* the text is JSON, bare or inside a markdown code fence
IsJsonText(text) ==
    /\ text.prefix \in {"", Fence, FenceJson}
    /\ text.suffix \in {"", Fence}
    /\ text.body.kind # "garbage"

EntryPart(k) ==
    CASE k = "platform_id" -> "entry.platform_id"
      [] k = "name" -> "entry.name"
      [] k = "score" -> "entry.score"

Facts(text) ==
    LET obj == IF text.body.kind = "object"
               THEN CHOOSE o \in text.body.val : TRUE
               ELSE [x \in {} |-> 0]
        recs == IF "all_recommendations" \in DOMAIN obj
                THEN obj.all_recommendations ELSE <<>>
    IN  [json |-> IsJsonText(text),
         \* the parts of the documented schema the response lacks
         lacks |-> (TopKeys \ DOMAIN obj)
                   \cup {EntryPart(k) : k \in {j \in EntryKeys :
                            \E i \in 1..Len(recs) : j \notin DOMAIN recs[i]}}
                   \cup {"entry.score_range" : i \in {j \in 1..Len(recs) :
                            "score" \in DOMAIN recs[j] /\ recs[j].score \notin 0..10}},
         \* the recommended_platform_id, if the response has one
         recommended |-> {obj[k] : k \in {"recommended_platform_id"} \cap DOMAIN obj},
         \* the platform_id of every all_recommendations entry that has one
         cited |-> {recs[i].platform_id : i \in {j \in 1..Len(recs) :
                            "platform_id" \in DOMAIN recs[j]}}]

(***************************************************************************)
(* Errors as they reach the client (exceptions.py, error_handler.py)       *)
(***************************************************************************)
Response(status, code) == [status |-> status, code |-> code]

\* variant: NotFoundError keeps the base class's default status
NotFoundError_default_status == Response(500, "NOT_FOUND")

\* NotFoundError through admaster_exception_handler
NotFoundError == Response(404, "NOT_FOUND")
\* ValidationError through admaster_exception_handler
ValidationError == Response(400, "VALIDATION_ERROR")
\* InternalServerError through admaster_exception_handler
InternalServerError == Response(500, "INTERNAL_SERVER_ERROR")
\* ValueError, KeyError, TypeError and API errors through general_exception_handler
UnhandledException == Response(500, "INTERNAL_SERVER_ERROR")
\* fastapi.HTTPException(404)
HTTPNotFound == Response(404, "HTTPException")
Created == Response(201, "OK")
Ok == Response(200, "OK")

(***************************************************************************)
(* AIPlatformAnalyzer._parse_gemini_response                               *)
(***************************************************************************)
\* lines 481-488: strip a leading fence (with or without the json tag) and a
\* trailing fence
StripFences(text) ==
    LET c1 == IF text.prefix = FenceJson THEN [text EXCEPT !.prefix = ""]
              ELSE text
        c2 == IF c1.prefix = Fence THEN [c1 EXCEPT !.prefix = ""] ELSE c1
        c3 == IF c2.suffix = Fence THEN [c2 EXCEPT !.suffix = ""] ELSE c2
    IN  c3

\* json.loads(cleaned) succeeds
JsonLoads(cleaned) ==
    cleaned.prefix = "" /\ cleaned.suffix = "" /\ cleaned.body.kind # "garbage"

\* [ok |-> TRUE, result |-> the dict] or [ok |-> FALSE] when it raises
parse_gemini_response(text) ==
    LET cleaned == StripFences(text) IN
    IF ~JsonLoads(cleaned) THEN [ok |-> FALSE, result |-> {}]
    ELSE IF cleaned.body.kind = "array" THEN [ok |-> FALSE, result |-> {}]
    ELSE LET result == CHOOSE o \in cleaned.body.val : TRUE IN
         IF "recommended_platform_id" \notin DOMAIN result
         THEN [ok |-> FALSE, result |-> {}]
         ELSE [ok |-> TRUE, result |-> {result}]

(***************************************************************************)
(* PlatformService                                                         *)
(***************************************************************************)
\* variant: the id is taken for a platform without looking it up
get_platform_by_id_unchecked(platform_id) == {platform_id}

\* Platform.find_one(platform_id == id): the platform or nothing
get_platform_by_id(platform_id) == {p \in PlatformCatalog : p = platform_id}

\* variant: the ids are returned without the catalog lookup
get_platforms_by_ids_unchecked(platform_ids) == SeqToSet(platform_ids)

\* Platform.find({"platform_id": {"$in": ids}}): each matching platform once
get_platforms_by_ids(platform_ids) == {p \in PlatformCatalog : p \in SeqToSet(platform_ids)}

(***************************************************************************)
(* PlatformIntelligenceService.get_best_platform_with_analysis, lines      *)
(* 98-141: from the parsed AI result to the recommendation result          *)
(***************************************************************************)
\* variant: the name is read with rec.get("name")
CopiedEntryKeys_name_optional == {"platform_id", "score"}

\* the keys lines 131-140 read with rec[...] from every entry
CopiedEntryKeys == {"platform_id", "name", "score"}

\* lines 131-140: the all_recommendations list of the result
CopyRecommendations(recs) ==
    [i \in 1..Len(recs) |-> [k \in CopiedEntryKeys |-> recs[i][k]]]

\* variant: the first entry is taken whatever its platform_id
find_recommended_rec_first(recs, platform_id) ==
    {recs[i] : i \in {1} \cap DOMAIN recs}

\* lines 116-120: the first entry whose platform_id is the recommended
\* platform's, or nothing
find_recommended_rec(recs, platform_id) ==
    LET matching == {i \in 1..Len(recs) : recs[i].platform_id = platform_id} IN
    {recs[i] : i \in {j \in matching : \A k \in matching : j <= k}}

\* [ok |-> TRUE, result |-> {dict}] or [ok |-> FALSE] when a line raises
recommendation_from(ai_result) ==
    LET fail == [ok |-> FALSE, result |-> {}] IN
    IF "recommended_platform_name" \notin DOMAIN ai_result THEN fail
    ELSE IF get_platform_by_id(ai_result.recommended_platform_id) = {} THEN fail
    ELSE IF "all_recommendations" \notin DOMAIN ai_result THEN fail
    ELSE LET recs == ai_result.all_recommendations
             recommended_platform ==
                 CHOOSE p \in get_platform_by_id(ai_result.recommended_platform_id) : TRUE
         IN
         IF \E i \in 1..Len(recs) : "platform_id" \notin DOMAIN recs[i] THEN fail
         ELSE IF find_recommended_rec(recs, recommended_platform) = {} THEN fail
         ELSE LET recommended_rec ==
                      CHOOSE x \in find_recommended_rec(recs, recommended_platform) : TRUE
              IN
              IF "score" \notin DOMAIN recommended_rec THEN fail
              ELSE IF \E i \in 1..Len(recs) : ~(CopiedEntryKeys \subseteq DOMAIN recs[i])
              THEN fail
              ELSE [ok |-> TRUE,
                    result |-> {[platform |-> recommended_platform,
                                 score |-> recommended_rec.score,
                                 all_recommendations |-> CopyRecommendations(recs)]}]

\* variant: a goal outside the table falls back to website-traffic
map_advertising_goal_or_default(advertising_goal) ==
    IF advertising_goal \in ConversionGoals THEN {advertising_goal}
    ELSE {"website-traffic"}

(***************************************************************************)
(* CampaignService                                                         *)
(***************************************************************************)
\* _map_advertising_goal_to_conversion_goal: the mapped goal, none if it raises
map_advertising_goal_to_conversion_goal(advertising_goal) ==
    {g \in ConversionGoals : g = advertising_goal}

\* create_campaign lines 62-69: the conversion goal, none if ValidationError
ResolveGoal(goal) ==
    IF goal.advertising_goal \notin {"None", ""}
    THEN map_advertising_goal_to_conversion_goal(goal.advertising_goal)
    ELSE IF goal.conversion_goal \notin {"None", ""}
    THEN {goal.conversion_goal}
    ELSE {}

\* create_campaign lines 109-123 and 163-164: the platform fields of the
\* Campaign, from the recommendation result
CampaignPlatforms(recommendation_result) ==
    LET recommended_platform == recommendation_result.platform
        all_recommended_platform_ids ==
            [i \in 1..Len(recommendation_result.all_recommendations) |->
                recommendation_result.all_recommendations[i].platform_id]
        all_recommended_platforms == get_platforms_by_ids(all_recommended_platform_ids)
    IN  [recommended_platform_id |-> recommended_platform,
         supported_platform_ids |-> all_recommended_platforms]

\* what one response text leads to: the facts about it, whether the
\* recommendation step returned, and the platform fields if it did
\* (ai_platform_analyzer.py lines 112-116, platform_intelligence_service.py
\* lines 98-141, campaign_service.py lines 106-123)
ModelOutcome(text) ==
    LET parsed == parse_gemini_response(text)
        rec == IF parsed.ok
               THEN recommendation_from(CHOOSE o \in parsed.result : TRUE)
               ELSE [ok |-> FALSE, result |-> {}]
    IN  [facts |-> Facts(text),
         ok |-> rec.ok,
         platforms |-> {CampaignPlatforms(x) : x \in rec.result}]

ResponseOutcomes == {ModelOutcome(text) : text \in ResponseTexts}

\* create_campaign lines 143-169: the Campaign document
BuildCampaign(q, conversion_goal, platforms, id) ==
    [id |-> id,
     business_id |-> q.business_id,
     user_id |-> q.user,
     conversion_goal |-> conversion_goal,
     recommended_platform_id |-> platforms.recommended_platform_id,
     supported_platform_ids |-> platforms.supported_platform_ids,
     status |-> "draft"]

\* variant: the insert is issued a second time
InsertCampaign_twice(collection, doc) ==
    collection \cup {doc, [doc EXCEPT !.id = doc.id + 1]}

\* campaign.insert(): the collection after the insert
InsertCampaign(collection, doc) == collection \cup {doc}

(***************************************************************************)
(* Document store queries                                                  *)
(***************************************************************************)
\* Business(user_id=..., **business_data.model_dump()): status defaults to
\* "active" (business.py line 60)
NewBusiness(id, user_id) == [id |-> id, user_id |-> user_id, status |-> "active"]

\* Business.get(id)
Business_get(business_id) == {b \in businesses : b.id = business_id}

\* variant: the business whoever owns it
get_business_by_id_any_owner(business_id, user_id) == Business_get(business_id)

\* BusinessService.get_business_by_id: the business only if the user owns it
get_business_by_id(business_id, user_id) ==
    {b \in Business_get(business_id) : b.user_id = user_id}

\* Brand.find_one(business_id == id): the first matching document
get_brand_by_business_id(business_id) ==
    LET matching == {b \in brands : b.business_id = business_id} IN
    {b \in matching : \A c \in matching : b.id <= c.id}

\* Brand(business_id=...) with the model's field defaults
NewBrand(business_id, id) ==
    [id |-> id, business_id |-> business_id, description |-> "", is_complete |-> FALSE]

\* Brand.update_brand_info: the fields given overwrite the document's
ApplyBrandUpdate(brand, data) ==
    [k \in DOMAIN brand |-> IF k \in DOMAIN data THEN data[k] ELSE brand[k]]

\* brand.save(): replace the stored document with the same id (upsert)
SaveBrand(collection, brand) ==
    {b \in collection : b.id # brand.id} \cup {brand}

\* User(**user_data.model_dump()): a user document; "None" is None; the
\* businesses list starts at the model's default, [] (user.py line 26)
NewUser(id, clerk_id, email, first_name) ==
    [id |-> id, clerk_id |-> clerk_id, email |-> email, first_name |-> first_name,
     businesses |-> <<>>]

\* User.add_business (user.py lines 59-64) on the object: append if absent
add_business(user, business_id) ==
    IF business_id \in SeqToSet(user.businesses) THEN user
    ELSE [user EXCEPT !.businesses = Append(@, business_id)]

\* User.remove_business (user.py lines 66-71) on the object: list.remove
\* (the list holds no id twice, add_business sees to that)
remove_business(user, business_id) ==
    [user EXCEPT !.businesses = SelectSeq(@, LAMBDA b : b # business_id)]

\* deps.py line 43: the email of a token that carries no email claim
TokenEmail(user_id) ==
    CASE user_id = "u1" -> "u1@clerk.user"
      [] OTHER -> "u2@clerk.user"

\* user.insert(): the collection after the insert; the collection's indexes
\* on clerk_id and email (User.Settings) are not unique
InsertUser(collection, user) == collection \cup {user}

\* user.save(): replace the stored document with the same id (upsert)
SaveUser(collection, user) ==
    {u \in collection : u.id # user.id} \cup {user}

\* user.delete(): remove the document with this id
DeleteUser(collection, user) == {u \in collection : u.id # user.id}

(***************************************************************************)
(* HTTP requests                                                           *)
(* Each request runs its handler as a sequence of steps, one per awaited   *)
(* database or network operation; steps of different requests interleave.  *)
(***************************************************************************)
IdleRequest ==
    [kind |-> "none", user |-> "none", business_id |-> "none", goal |-> NoGoal,
     data |-> NoData, pc |-> "idle",
     conversion_goal |-> {},  \* local conversion_goal
     brand |-> {},            \* local brand (a Brand document or nothing)
     ai_facts |-> {},         \* history: what the model's response.text was like
     doc |-> {},              \* the Campaign document about to be inserted
     response |-> Response(0, "none"),
     ai_calls |-> 0,          \* generate_content calls issued by this request
     campaign_id |-> 0,       \* path parameter of GET /campaign/groups/{campaign_id}
     current_user |-> {},     \* the User object get_current_user returned
     business |-> {}]         \* local business (a Business document or nothing)

Set(r, q) == reqs' = [reqs EXCEPT ![r] = q]

\* the handler returns or raises: the response is sent, the locals are dropped
Finish(q, resp) ==
    [q EXCEPT !.pc = "done", !.response = resp, !.brand = {}, !.doc = {},
              !.conversion_goal = {}, !.current_user = {}, !.business = {}]

\* models/__init__.py: the five Document classes, one per collection
DocumentModels == {"User", "Business", "Brand", "Platform", "Campaign"}

\* Database before connect_db: client and db are None
NotConnected == [state |-> "down", document_models |-> {}]

\* premise of the request handlers' description: they are served over a
\* store in which the collections they use are registered
Serving == [state |-> "up", document_models |-> DocumentModels]

ApiInit ==
    /\ businesses = {NewBusiness("b1", "u1")}
    /\ brands \in {{}, {NewBrand("b1", 1)}}
    /\ campaigns = {}
    /\ users = {add_business(NewUser(1, "u1", TokenEmail("u1"), "None"), "b1")}
    /\ env \in Envs
    /\ db = Serving
    /\ reqs = [r \in ReqIds |-> IdleRequest]

\* ---- request arrival -------------------------------------------------------
\* POST /campaign/groups/create
ArriveCampaignCreate(r) ==
    /\ reqs[r].pc = "idle"
    /\ \E u \in UserIds, b \in BusinessIds, g \in GoalInputs :
         Set(r, [IdleRequest EXCEPT !.kind = "campaign_create", !.user = u,
                                    !.business_id = b, !.goal = g, !.pc = "auth"])
    /\ UNCHANGED <<businesses, brands, campaigns, users, env, db>>
    /\ UNCHANGED <<crawlVars, intelVars, admitVars>>

\* GET /brands/business/{business_id}
ArriveBrandGet(r) ==
    /\ reqs[r].pc = "idle"
    /\ \E u \in UserIds, b \in BusinessIds :
         Set(r, [IdleRequest EXCEPT !.kind = "brand_get", !.user = u,
                                    !.business_id = b, !.pc = "auth"])
    /\ UNCHANGED <<businesses, brands, campaigns, users, env, db>>
    /\ UNCHANGED <<crawlVars, intelVars, admitVars>>

\* PUT /brands/business/{business_id}
ArriveBrandUpdate(r) ==
    /\ reqs[r].pc = "idle"
    /\ \E u \in UserIds, b \in BusinessIds, d \in BrandUpdates :
         Set(r, [IdleRequest EXCEPT !.kind = "brand_update", !.user = u,
                                    !.business_id = b, !.data = d, !.pc = "auth"])
    /\ UNCHANGED <<businesses, brands, campaigns, users, env, db>>
    /\ UNCHANGED <<crawlVars, intelVars, admitVars>>

\* POST /brands/business/{business_id}/complete
ArriveBrandComplete(r) ==
    /\ reqs[r].pc = "idle"
    /\ \E u \in UserIds, b \in BusinessIds :
         Set(r, [IdleRequest EXCEPT !.kind = "brand_complete", !.user = u,
                                    !.business_id = b, !.pc = "auth"])
    /\ UNCHANGED <<businesses, brands, campaigns, users, env, db>>
    /\ UNCHANGED <<crawlVars, intelVars, admitVars>>

\* the ObjectId MongoDB gives the next inserted user document
FreshUserId ==
    LET used == {u.id : u \in users}
                \cup {d.id : d \in UNION {reqs[r].doc : r \in {x \in ReqIds : reqs[x].kind = "webhook"}}}
    IN  CHOOSE n \in 1..(Cardinality(used) + 1) : n \notin used

\* ---- get_current_user (deps.py) ---------------------------------------------
\* UserService.get_by_clerk_id
get_by_clerk_id(clerk_id) == {u \in users : u.clerk_id = clerk_id}

\* the User object the handler receives; only check_has_business reads a
\* field of it other than clerk_id, which is the token's subject
Kept(q, user) == IF q.kind = "has_business" THEN {user} ELSE {}

\* lines 36-40: look the token's subject up
AuthLookup(r) ==
    /\ reqs[r].pc = "auth"
    /\ \/ /\ get_by_clerk_id(reqs[r].user) = {}
          /\ Set(r, [reqs[r] EXCEPT !.pc = "auth_create"])
       \/ \E user \in get_by_clerk_id(reqs[r].user) :
            Set(r, [reqs[r] EXCEPT !.pc = "verify",
                                   !.current_user = Kept(reqs[r], user)])
    /\ UNCHANGED <<businesses, brands, campaigns, users, env, db>>
    /\ UNCHANGED <<crawlVars, intelVars, admitVars>>

\* lines 40-53: first sight of the identity, UserService.create_user
AuthProvision(r) ==
    /\ reqs[r].pc = "auth_create"
    /\ LET user == NewUser(FreshUserId, reqs[r].user, TokenEmail(reqs[r].user), "None") IN
         /\ users' = InsertUser(users, user)
         /\ Set(r, [reqs[r] EXCEPT !.pc = "verify",
                                   !.current_user = Kept(reqs[r], user)])
    /\ UNCHANGED <<businesses, brands, campaigns, env, db>>
    /\ UNCHANGED <<crawlVars, intelVars, admitVars>>

\* ---- POST /campaign/groups/create -------------------------------------------
\* campaigns.py lines 172-178: verify the business belongs to the user
CcVerifyBusiness(r) ==
    /\ reqs[r].pc = "verify"
    /\ reqs[r].kind = "campaign_create"
    /\ Set(r, IF get_business_by_id(reqs[r].business_id, reqs[r].user) = {}
              THEN Finish(reqs[r], NotFoundError)
              ELSE [reqs[r] EXCEPT !.pc = "cc_business"])
    /\ UNCHANGED <<businesses, brands, campaigns, users, env, db>>
    /\ UNCHANGED <<crawlVars, intelVars, admitVars>>

\* campaign_service.py lines 56-71: load the business, resolve the goal
CcLoadBusiness(r) ==
    /\ reqs[r].pc = "cc_business"
    /\ Set(r, IF Business_get(reqs[r].business_id) = {}
              THEN Finish(reqs[r], NotFoundError)
              ELSE IF ResolveGoal(reqs[r].goal) = {}
              THEN Finish(reqs[r], ValidationError)
              ELSE [reqs[r] EXCEPT !.conversion_goal = ResolveGoal(reqs[r].goal),
                                   !.pc = "cc_brand"])
    /\ UNCHANGED <<businesses, brands, campaigns, users, env, db>>
    /\ UNCHANGED <<crawlVars, intelVars, admitVars>>

\* campaign_service.py lines 89-96 and platform_intelligence_service.py lines
\* 65-71: the configuration checks that precede any work of the orchestrator
ConfigError(e) ==
    IF ~model_name(e) THEN {InternalServerError}
    ELSE IF ~e.GEMINI_AVAILABLE THEN {UnhandledException}
    ELSE IF ~api_key(e) THEN {UnhandledException}
    ELSE {}

\* campaign_service.py lines 80-96, platform_intelligence_service.py lines 65-77:
\* read the brand, check the configuration
CcLoadBrand(r) ==
    /\ reqs[r].pc = "cc_brand"
    /\ LET brand == get_brand_by_business_id(reqs[r].business_id) IN
       Set(r, IF ConfigError(env) # {}
              THEN Finish(reqs[r], CHOOSE e \in ConfigError(env) : TRUE)
              ELSE [reqs[r] EXCEPT !.brand = brand,
                                   !.pc = IF brand = {} THEN "cc_brand_again"
                                          ELSE "cc_call"])
    /\ UNCHANGED <<businesses, brands, campaigns, users, env, db>>
    /\ UNCHANGED <<crawlVars, intelVars, admitVars>>

\* platform_intelligence_service.py lines 74-77: no brand yet, read it again
CcLoadBrandAgain(r) ==
    /\ reqs[r].pc = "cc_brand_again"
    /\ Set(r, [reqs[r] EXCEPT !.brand = get_brand_by_business_id(reqs[r].business_id),
                              !.pc = "cc_call"])
    /\ UNCHANGED <<businesses, brands, campaigns, users, env, db>>
    /\ UNCHANGED <<crawlVars, intelVars, admitVars>>

\* platform_intelligence_service.py lines 84-96, ai_platform_analyzer.py lines
\* 23-51 and 88-108: build the analyzer and the prompt, call generate_content
CcCallModel(r) ==
    /\ reqs[r].pc = "cc_call"
    /\ Set(r, IF ~model_name(env) \/ ~api_key(env)
              THEN Finish(reqs[r], UnhandledException)
              ELSE [reqs[r] EXCEPT !.pc = "cc_await_model",
                                   !.ai_calls = reqs[r].ai_calls + 1])
    /\ UNCHANGED <<businesses, brands, campaigns, users, env, db>>
    /\ UNCHANGED <<crawlVars, intelVars, admitVars>>

\* ai_platform_analyzer.py lines 118-122: the call raised; the error propagates
CcModelError(r) ==
    /\ reqs[r].pc = "cc_await_model"
    /\ Set(r, Finish(reqs[r], UnhandledException))
    /\ UNCHANGED <<businesses, brands, campaigns, users, env, db>>
    /\ UNCHANGED <<crawlVars, intelVars, admitVars>>

\* ai_platform_analyzer.py lines 112-116, platform_intelligence_service.py lines
\* 98-141, campaign_service.py lines 106-169: parse the response, look the
\* platforms up, build the Campaign document
CcModelResponse(r) ==
    /\ reqs[r].pc = "cc_await_model"
    /\ \E outcome \in ResponseOutcomes :
         LET q == [reqs[r] EXCEPT !.ai_facts = {outcome.facts}]
             conversion_goal == CHOOSE g \in q.conversion_goal : TRUE
             platforms == CHOOSE x \in outcome.platforms : TRUE
         IN  Set(r, IF ~outcome.ok THEN Finish(q, UnhandledException)
                    ELSE [q EXCEPT !.doc = {BuildCampaign(q, conversion_goal, platforms, 0)},
                                   !.pc = "cc_insert"])
    /\ UNCHANGED <<businesses, brands, campaigns, users, env, db>>
    /\ UNCHANGED <<crawlVars, intelVars, admitVars>>

\* campaign_service.py lines 176-177 and campaigns.py lines 186-220:
\* insert the document, answer 201
CcInsert(r) ==
    /\ reqs[r].pc = "cc_insert"
    /\ LET doc == CHOOSE d \in reqs[r].doc : TRUE IN
       campaigns' = InsertCampaign(campaigns, [doc EXCEPT !.id = Cardinality(campaigns) + 1])
    /\ Set(r, Finish(reqs[r], Created))
    /\ UNCHANGED <<businesses, brands, users, env, db>>
    /\ UNCHANGED <<crawlVars, intelVars, admitVars>>

\* ---- /brands/business/{business_id} -------------------------------------------
\* brands.py lines 28-38, 57-67, 88-98: verify the business belongs to the user
BrandVerifyBusiness(r) ==
    /\ reqs[r].pc = "verify"
    /\ reqs[r].kind \in {"brand_get", "brand_update", "brand_complete"}
    /\ Set(r, IF get_business_by_id(reqs[r].business_id, reqs[r].user) = {}
              THEN Finish(reqs[r], HTTPNotFound)
              ELSE [reqs[r] EXCEPT !.pc = IF reqs[r].kind = "brand_complete"
                                          THEN "complete_find" ELSE "goc_find"])
    /\ UNCHANGED <<businesses, brands, campaigns, users, env, db>>
    /\ UNCHANGED <<crawlVars, intelVars, admitVars>>

\* what follows get_or_create_brand: GET answers, PUT goes on to update
AfterGetOrCreate(q, brand) ==
    IF q.kind = "brand_get" THEN Finish(q, Ok)
    ELSE [q EXCEPT !.brand = {ApplyBrandUpdate(brand, q.data)}, !.pc = "save"]

\* brand_service.py lines 20-21: get_or_create_brand looks the brand up
GetOrCreateFind(r) ==
    /\ reqs[r].pc = "goc_find"
    /\ LET found == get_brand_by_business_id(reqs[r].business_id) IN
       Set(r, IF found = {} THEN [reqs[r] EXCEPT !.pc = "goc_insert"]
              ELSE AfterGetOrCreate(reqs[r], CHOOSE b \in found : TRUE))
    /\ UNCHANGED <<businesses, brands, campaigns, users, env, db>>
    /\ UNCHANGED <<crawlVars, intelVars, admitVars>>

\* brand_service.py lines 22-26: none was found, insert a new Brand
GetOrCreateInsert(r) ==
    /\ reqs[r].pc = "goc_insert"
    /\ LET brand == NewBrand(reqs[r].business_id, Cardinality(brands) + 1) IN
         /\ brands' = brands \cup {brand}
         /\ Set(r, AfterGetOrCreate(reqs[r], brand))
    /\ UNCHANGED <<businesses, campaigns, users, env, db>>
    /\ UNCHANGED <<crawlVars, intelVars, admitVars>>

\* brand_service.py lines 52-55, brands.py lines 100-108: mark_brand_complete
CompleteFind(r) ==
    /\ reqs[r].pc = "complete_find"
    /\ LET found == get_brand_by_business_id(reqs[r].business_id) IN
       Set(r, IF found = {} THEN Finish(reqs[r], HTTPNotFound)
              ELSE [reqs[r] EXCEPT
                      !.brand = {ApplyBrandUpdate(CHOOSE b \in found : TRUE,
                                                  [is_complete |-> TRUE])},
                      !.pc = "save"])
    /\ UNCHANGED <<businesses, brands, campaigns, users, env, db>>
    /\ UNCHANGED <<crawlVars, intelVars, admitVars>>

\* brand.py lines 77-78: update_brand_info saves the document, the handler answers
BrandSave(r) ==
    /\ reqs[r].pc = "save"
    /\ brands' = SaveBrand(brands, CHOOSE b \in reqs[r].brand : TRUE)
    /\ Set(r, Finish(reqs[r], Ok))
    /\ UNCHANGED <<businesses, campaigns, users, env, db>>
    /\ UNCHANGED <<crawlVars, intelVars, admitVars>>

\* ---- /businesses (businesses.py, business_service.py) -------------------------
\* BusinessUpdate bodies after model_dump(exclude_unset=True)
BusinessUpdates == {[status |-> "paused"]}

\* ids MongoDB may give to Business documents inserted by the requests
NewBusinessIds == {"b3", "b4"}

\* ids of Campaign documents asked for; 2 is the next id an insert gives
CampaignIds == {1, 2}

\* the ObjectId MongoDB gives the next inserted Business: one seen nowhere
FreshBusinessId ==
    LET used == {b.id : b \in businesses}
                \cup UNION {SeqToSet(u.businesses) : u \in users}
                \cup UNION {{b.id : b \in reqs[r].business} : r \in ReqIds}
                \cup UNION {UNION {SeqToSet(d.businesses) : d \in reqs[r].doc} :
                               r \in {x \in ReqIds : reqs[x].kind \in
                                         {"business_create", "business_delete", "webhook"}}}
    IN  CHOOSE id \in NewBusinessIds : id \notin used

\* business.save(): replace the stored document with the same id (upsert)
SaveBusiness(collection, business) ==
    {b \in collection : b.id # business.id} \cup {business}

\* business.delete(): remove the document with this id
DeleteBusiness(collection, business) == {b \in collection : b.id # business.id}

\* BusinessService.has_any_business: Business.find(user_id).count() > 0
has_any_business(user_id) == \E b \in businesses : b.user_id = user_id

\* CampaignService.get_campaign_by_id: the campaign only if the user owns it
get_campaign_by_id(campaign_id, user_id) ==
    {c \in campaigns : c.id = campaign_id /\ c.user_id = user_id}

\* POST /businesses
ArriveBusinessCreate(r) ==
    /\ reqs[r].pc = "idle"
    /\ \E u \in UserIds :
         Set(r, [IdleRequest EXCEPT !.kind = "business_create", !.user = u, !.pc = "auth"])
    /\ UNCHANGED <<businesses, brands, campaigns, users, env, db>>
    /\ UNCHANGED <<crawlVars, intelVars, admitVars>>

\* GET /businesses/{business_id}
ArriveBusinessGet(r) ==
    /\ reqs[r].pc = "idle"
    /\ \E u \in UserIds, b \in BusinessIds :
         Set(r, [IdleRequest EXCEPT !.kind = "business_get", !.user = u,
                                    !.business_id = b, !.pc = "auth"])
    /\ UNCHANGED <<businesses, brands, campaigns, users, env, db>>
    /\ UNCHANGED <<crawlVars, intelVars, admitVars>>

\* PUT /businesses/{business_id}
ArriveBusinessUpdate(r) ==
    /\ reqs[r].pc = "idle"
    /\ \E u \in UserIds, b \in BusinessIds, d \in BusinessUpdates :
         Set(r, [IdleRequest EXCEPT !.kind = "business_update", !.user = u,
                                    !.business_id = b, !.data = d, !.pc = "auth"])
    /\ UNCHANGED <<businesses, brands, campaigns, users, env, db>>
    /\ UNCHANGED <<crawlVars, intelVars, admitVars>>

\* DELETE /businesses/{business_id}
ArriveBusinessDelete(r) ==
    /\ reqs[r].pc = "idle"
    /\ \E u \in UserIds, b \in BusinessIds :
         Set(r, [IdleRequest EXCEPT !.kind = "business_delete", !.user = u,
                                    !.business_id = b, !.pc = "auth"])
    /\ UNCHANGED <<businesses, brands, campaigns, users, env, db>>
    /\ UNCHANGED <<crawlVars, intelVars, admitVars>>

\* GET /businesses/check/has-business
ArriveHasBusiness(r) ==
    /\ reqs[r].pc = "idle"
    /\ \E u \in UserIds :
         Set(r, [IdleRequest EXCEPT !.kind = "has_business", !.user = u, !.pc = "auth"])
    /\ UNCHANGED <<businesses, brands, campaigns, users, env, db>>
    /\ UNCHANGED <<crawlVars, intelVars, admitVars>>

\* GET /campaign/groups/{campaign_id}
ArriveCampaignGet(r) ==
    /\ reqs[r].pc = "idle"
    /\ \E u \in UserIds, c \in CampaignIds :
         Set(r, [IdleRequest EXCEPT !.kind = "campaign_get", !.user = u,
                                    !.campaign_id = c, !.pc = "auth"])
    /\ UNCHANGED <<businesses, brands, campaigns, users, env, db>>
    /\ UNCHANGED <<crawlVars, intelVars, admitVars>>

\* business_service.py lines 36-43, 69-72, 87-90 and businesses.py lines 80-91,
\* 105-115, 130-139: get_business_by_id, 404 if it returns nothing
BusinessVerify(r) ==
    /\ reqs[r].pc = "verify"
    /\ reqs[r].kind \in {"business_get", "business_update", "business_delete"}
    /\ LET found == get_business_by_id(reqs[r].business_id, reqs[r].user) IN
       Set(r, IF found = {} THEN Finish(reqs[r], HTTPNotFound)
              ELSE IF reqs[r].kind = "business_get" THEN Finish(reqs[r], Ok)
              ELSE IF reqs[r].kind = "business_update"
              THEN [reqs[r] EXCEPT
                      !.business = {ApplyBrandUpdate(CHOOSE b \in found : TRUE, reqs[r].data)},
                      !.pc = "biz_save"]
              ELSE [reqs[r] EXCEPT !.business = found, !.pc = "del_user"])
    /\ UNCHANGED <<businesses, brands, campaigns, users, env, db>>
    /\ UNCHANGED <<crawlVars, intelVars, admitVars>>

\* business_service.py lines 74-82: setattr on the loaded document, save it
BusinessSave(r) ==
    /\ reqs[r].pc = "biz_save"
    /\ businesses' = SaveBusiness(businesses, CHOOSE b \in reqs[r].business : TRUE)
    /\ Set(r, Finish(reqs[r], Ok))
    /\ UNCHANGED <<brands, campaigns, users, env, db>>
    /\ UNCHANGED <<crawlVars, intelVars, admitVars>>

\* business_service.py lines 92-95 and user.py lines 66-69: find the user,
\* take the id off the list of the object just loaded
DeleteFindUser(r) ==
    /\ reqs[r].pc = "del_user"
    /\ LET business == CHOOSE b \in reqs[r].business : TRUE IN
       \/ /\ get_by_clerk_id(reqs[r].user) = {}
          /\ Set(r, [reqs[r] EXCEPT !.pc = "del_delete"])
       \/ \E user \in get_by_clerk_id(reqs[r].user) :
            Set(r, IF business.id \in SeqToSet(user.businesses)
                   THEN [reqs[r] EXCEPT !.doc = {remove_business(user, business.id)},
                                        !.pc = "del_save_user"]
                   ELSE [reqs[r] EXCEPT !.pc = "del_delete"])
    /\ UNCHANGED <<businesses, brands, campaigns, users, env, db>>
    /\ UNCHANGED <<crawlVars, intelVars, admitVars>>

\* user.py lines 70-71: await self.save()
DeleteSaveUser(r) ==
    /\ reqs[r].pc = "del_save_user"
    /\ users' = SaveUser(users, CHOOSE d \in reqs[r].doc : TRUE)
    /\ Set(r, [reqs[r] EXCEPT !.doc = {}, !.pc = "del_delete"])
    /\ UNCHANGED <<businesses, brands, campaigns, env, db>>
    /\ UNCHANGED <<crawlVars, intelVars, admitVars>>

\* business_service.py lines 97-99: await business.delete(), answer 204; the
\* brands and campaigns collections are not touched
DeleteRun(r) ==
    /\ reqs[r].pc = "del_delete"
    /\ businesses' = DeleteBusiness(businesses, CHOOSE b \in reqs[r].business : TRUE)
    /\ Set(r, Finish(reqs[r], Response(204, "OK")))
    /\ UNCHANGED <<brands, campaigns, users, env, db>>
    /\ UNCHANGED <<crawlVars, intelVars, admitVars>>

\* business_service.py lines 22-26: build the Business, await business.insert()
CreateInsert(r) ==
    /\ reqs[r].pc = "verify"
    /\ reqs[r].kind = "business_create"
    /\ LET business == NewBusiness(FreshBusinessId, reqs[r].user) IN
         /\ businesses' = businesses \cup {business}
         /\ Set(r, [reqs[r] EXCEPT !.business = {business}, !.pc = "create_user"])
    /\ UNCHANGED <<brands, campaigns, users, env, db>>
    /\ UNCHANGED <<crawlVars, intelVars, admitVars>>

\* business_service.py lines 29-31 and user.py lines 59-62: find the user,
\* append the id to the list of the object just loaded
CreateFindUser(r) ==
    /\ reqs[r].pc = "create_user"
    /\ LET business == CHOOSE b \in reqs[r].business : TRUE IN
       \/ /\ get_by_clerk_id(reqs[r].user) = {}
          /\ Set(r, Finish(reqs[r], Created))
       \/ \E user \in get_by_clerk_id(reqs[r].user) :
            Set(r, IF business.id \notin SeqToSet(user.businesses)
                   THEN [reqs[r] EXCEPT !.doc = {add_business(user, business.id)},
                                        !.pc = "create_save_user"]
                   ELSE Finish(reqs[r], Created))
    /\ UNCHANGED <<businesses, brands, campaigns, users, env, db>>
    /\ UNCHANGED <<crawlVars, intelVars, admitVars>>

\* user.py lines 63-64: await self.save(); businesses.py line 42 answers 201
CreateSaveUser(r) ==
    /\ reqs[r].pc = "create_save_user"
    /\ users' = SaveUser(users, CHOOSE d \in reqs[r].doc : TRUE)
    /\ Set(r, Finish(reqs[r], Created))
    /\ UNCHANGED <<businesses, brands, campaigns, env, db>>
    /\ UNCHANGED <<crawlVars, intelVars, admitVars>>

\* the body check_has_business answers with
HasBusinessResponse(has_business, business_count) ==
    [status |-> 200, code |-> "OK", has_business |-> has_business,
     business_count |-> business_count]

\* businesses.py lines 154-159: count the user's Business documents, take
\* the length of the list of the User object the request was authenticated with
CheckHasBusiness(r) ==
    /\ reqs[r].pc = "verify"
    /\ reqs[r].kind = "has_business"
    /\ LET current_user == CHOOSE u \in reqs[r].current_user : TRUE IN
       Set(r, Finish(reqs[r], HasBusinessResponse(has_any_business(reqs[r].user),
                                                  Len(current_user.businesses))))
    /\ UNCHANGED <<businesses, brands, campaigns, users, env, db>>
    /\ UNCHANGED <<crawlVars, intelVars, admitVars>>

\* campaign_service.py lines 180-204 and campaigns.py lines 251-260:
\* get_campaign_by_id, 404 if it returns nothing
CampaignGet(r) ==
    /\ reqs[r].pc = "verify"
    /\ reqs[r].kind = "campaign_get"
    /\ Set(r, IF get_campaign_by_id(reqs[r].campaign_id, reqs[r].user) = {}
              THEN Finish(reqs[r], HTTPNotFound)
              ELSE Finish(reqs[r], Ok))
    /\ UNCHANGED <<businesses, brands, campaigns, users, env, db>>
    /\ UNCHANGED <<crawlVars, intelVars, admitVars>>

\* ---- POST /webhooks/clerk (webhooks.py) ---------------------------------------
WebhookTypes == {"user.created", "user.updated", "user.deleted", "session.created"}

\* payload "data" objects: complete, without email_addresses, with an empty
\* email_addresses list, without id
WebhookData ==
    {[id |-> u, email_addresses |-> <<e>>, first_name |-> n] :
        u \in UserIds, e \in {"new@example.com"}, n \in {"Ann"}}
    \cup {[id |-> "u2", first_name |-> "Ann"],
          [id |-> "u2", email_addresses |-> <<>>, first_name |-> "Ann"],
          [email_addresses |-> <<"new@example.com">>, first_name |-> "Ann"]}

\* request bodies: JSON objects with "type" and "data", and a body that is not JSON
WebhookPayloads ==
    {[json |-> TRUE, type |-> t, data |-> d] : t \in WebhookTypes, d \in WebhookData}
    \cup {[json |-> FALSE]}

\* a Python exception: its class and str(e)
Exception(type, message) == [type |-> type, message |-> message]

\* data["id"]
IdError(data) ==
    IF "id" \in DOMAIN data THEN {} ELSE {Exception("KeyError", "'id'")}

\* data["email_addresses"][0]["email_address"]
EmailError(data) ==
    IF "email_addresses" \notin DOMAIN data
    THEN {Exception("KeyError", "'email_addresses'")}
    ELSE IF data.email_addresses = <<>>
    THEN {Exception("IndexError", "list index out of range")}
    ELSE {}

\* the exception the handler's reads of the payload raise, in evaluation order
PayloadError(type, data) ==
    CASE type = "user.created" -> IF IdError(data) # {} THEN IdError(data) ELSE EmailError(data)
      [] type = "user.updated" -> IF EmailError(data) # {} THEN EmailError(data) ELSE IdError(data)
      [] type = "user.deleted" -> IdError(data)
      [] OTHER -> {}

\* error_handler.py lines 84-107: the answer does not depend on the exception
general_exception_handler(exc) == UnhandledException

\* webhooks.py lines 65-70: HTTPException(500, detail="Webhook processing
\* failed: " + str(e)), answered by FastAPI's own HTTPException handler
WebhookFailed(exc) ==
    [status |-> 500, code |-> "HTTPException",
     detail |-> <<"Webhook processing failed: ", exc.message>>]

\* webhooks.py line 63
WebhookSuccess == Response(200, "success")

ArriveWebhook(r) ==
    /\ reqs[r].pc = "idle"
    /\ \E payload \in WebhookPayloads :
         Set(r, [IdleRequest EXCEPT !.kind = "webhook", !.data = payload, !.pc = "wh_event"])
    /\ UNCHANGED <<businesses, brands, campaigns, users, env, db>>
    /\ UNCHANGED <<crawlVars, intelVars, admitVars>>

\* webhooks.py lines 27-63: read the body, build the schema object for the event
WhEvent(r) ==
    /\ reqs[r].pc = "wh_event"
    /\ LET payload == reqs[r].data IN
       Set(r, IF ~payload.json
              THEN Finish(reqs[r], general_exception_handler(
                                       Exception("JSONDecodeError", "Expecting value")))
              ELSE IF PayloadError(payload.type, payload.data) # {}
              THEN Finish(reqs[r], WebhookFailed(
                                       CHOOSE e \in PayloadError(payload.type, payload.data) : TRUE))
              ELSE [reqs[r] EXCEPT !.pc = CASE payload.type = "user.created" -> "wh_insert"
                            [] payload.type = "user.updated" -> "wh_update_find"
                            [] payload.type = "user.deleted" -> "wh_delete_find"
                            [] OTHER -> "wh_ignore"])
    /\ UNCHANGED <<businesses, brands, campaigns, users, env, db>>
    /\ UNCHANGED <<crawlVars, intelVars, admitVars>>

\* webhooks.py lines 60-63: an event type the handler does not know
WhIgnore(r) ==
    /\ reqs[r].pc = "wh_ignore"
    /\ Set(r, Finish(reqs[r], WebhookSuccess))
    /\ UNCHANGED <<businesses, brands, campaigns, users, env, db>>
    /\ UNCHANGED <<crawlVars, intelVars, admitVars>>

\* user_service.py lines 25-31: create_user inserts without looking
WhInsert(r) ==
    /\ reqs[r].pc = "wh_insert"
    /\ LET data == reqs[r].data.data IN
       users' = InsertUser(users, NewUser(FreshUserId, data.id,
                                         data.email_addresses[1], data.first_name))
    /\ Set(r, Finish(reqs[r], WebhookSuccess))
    /\ UNCHANGED <<businesses, brands, campaigns, env, db>>
    /\ UNCHANGED <<crawlVars, intelVars, admitVars>>

\* user_service.py lines 36-47: update_user finds the user and sets the fields
WhUpdateFind(r) ==
    /\ reqs[r].pc = "wh_update_find"
    /\ LET data == reqs[r].data.data IN
       \/ /\ get_by_clerk_id(data.id) = {}
          /\ Set(r, Finish(reqs[r], WebhookSuccess))
       \/ \E user \in get_by_clerk_id(data.id) :
            Set(r, [reqs[r] EXCEPT !.doc = {[user EXCEPT !.email = data.email_addresses[1],
                                                        !.first_name = data.first_name]},
                                   !.pc = "wh_save"])
    /\ UNCHANGED <<businesses, brands, campaigns, users, env, db>>
    /\ UNCHANGED <<crawlVars, intelVars, admitVars>>

\* user_service.py lines 48-49: await user.save()
WhUpdateSave(r) ==
    /\ reqs[r].pc = "wh_save"
    /\ users' = SaveUser(users, CHOOSE d \in reqs[r].doc : TRUE)
    /\ Set(r, Finish(reqs[r], WebhookSuccess))
    /\ UNCHANGED <<businesses, brands, campaigns, env, db>>
    /\ UNCHANGED <<crawlVars, intelVars, admitVars>>

\* user_service.py lines 54-57: delete_user finds the user
WhDeleteFind(r) ==
    /\ reqs[r].pc = "wh_delete_find"
    /\ \/ /\ get_by_clerk_id(reqs[r].data.data.id) = {}
          /\ Set(r, Finish(reqs[r], WebhookSuccess))
       \/ \E user \in get_by_clerk_id(reqs[r].data.data.id) :
            Set(r, [reqs[r] EXCEPT !.doc = {user}, !.pc = "wh_delete"])
    /\ UNCHANGED <<businesses, brands, campaigns, users, env, db>>
    /\ UNCHANGED <<crawlVars, intelVars, admitVars>>

\* user_service.py lines 59-60: await user.delete()
WhDelete(r) ==
    /\ reqs[r].pc = "wh_delete"
    /\ users' = DeleteUser(users, CHOOSE d \in reqs[r].doc : TRUE)
    /\ Set(r, Finish(reqs[r], WebhookSuccess))
    /\ UNCHANGED <<businesses, brands, campaigns, env, db>>
    /\ UNCHANGED <<crawlVars, intelVars, admitVars>>

Next ==
    \/ \E r \in ReqIds : ArriveCampaignCreate(r)
    \/ \E r \in ReqIds : ArriveBrandGet(r)
    \/ \E r \in ReqIds : ArriveBrandUpdate(r)
    \/ \E r \in ReqIds : ArriveBrandComplete(r)
    \/ \E r \in ReqIds : AuthLookup(r)
    \/ \E r \in ReqIds : AuthProvision(r)
    \/ \E r \in ReqIds : CcVerifyBusiness(r)
    \/ \E r \in ReqIds : CcLoadBusiness(r)
    \/ \E r \in ReqIds : CcLoadBrand(r)
    \/ \E r \in ReqIds : CcLoadBrandAgain(r)
    \/ \E r \in ReqIds : CcCallModel(r)
    \/ \E r \in ReqIds : CcModelError(r)
    \/ \E r \in ReqIds : CcModelResponse(r)
    \/ \E r \in ReqIds : CcInsert(r)
    \/ \E r \in ReqIds : BrandVerifyBusiness(r)
    \/ \E r \in ReqIds : GetOrCreateFind(r)
    \/ \E r \in ReqIds : GetOrCreateInsert(r)
    \/ \E r \in ReqIds : CompleteFind(r)
    \/ \E r \in ReqIds : BrandSave(r)

\* AdMasterCrawlerService.crawl is not running
\* no _is_valid_url call is being looked at
AdmitQuiet == candidate = <<>> /\ verdict = "none"

IntelQuiet ==
    /\ page = <<>>
    /\ intel_pc = "off"
    /\ intel_result = <<>>

\* the crawler is not running while requests are served
CrawlQuiet ==
    /\ seed = <<>>
    /\ site = <<>>
    /\ max_pages = 0
    /\ max_depth = 0
    /\ visited_urls = {}
    /\ crawled_content = <<>>
    /\ base_domain = ""
    /\ start_url = <<>>
    /\ queue = <<>>
    /\ cur = <<>>
    /\ crawl_pc = "off"
    /\ fetch_log = <<>>
    /\ fetch_failed = FALSE
    /\ enqueued = {}
    /\ since_fetch = "none"
    /\ crawl_result = [returned |-> FALSE]
    /\ earlier = <<>>

Init == ApiInit /\ CrawlQuiet /\ IntelQuiet /\ AdmitQuiet

Spec == Init /\ [][Next]_vars

\* a Campaign document create_campaign stored for user u1 and business b1
StoredCampaign ==
    [id |-> 1, business_id |-> "b1", user_id |-> "u1",
     conversion_goal |-> "brand-awareness", recommended_platform_id |-> 1,
     supported_platform_ids |-> {1}, status |-> "draft"]

\* the store after user u1 created business b1 and a campaign for it, served
\* with a complete configuration
OwnerInit ==
    /\ businesses = {NewBusiness("b1", "u1")}
    /\ brands \in {{}, {NewBrand("b1", 1)}}
    /\ campaigns = {StoredCampaign}
    /\ users = {add_business(NewUser(1, "u1", TokenEmail("u1"), "None"), "b1")}
    /\ env \in {e \in Envs : ConfigError(e) = {} /\ e.GOOGLE_API_KEY}
    /\ db = Serving
    /\ reqs = [r \in ReqIds |-> IdleRequest]

\* the endpoints that address a Business or a Campaign by id
OwnerNext ==
    \/ \E r \in ReqIds : ArriveBusinessGet(r)
    \/ \E r \in ReqIds : ArriveBusinessUpdate(r)
    \/ \E r \in ReqIds : ArriveBusinessDelete(r)
    \/ \E r \in ReqIds : ArriveBrandGet(r)
    \/ \E r \in ReqIds : ArriveBrandUpdate(r)
    \/ \E r \in ReqIds : ArriveBrandComplete(r)
    \/ \E r \in ReqIds : ArriveCampaignCreate(r)
    \/ \E r \in ReqIds : ArriveCampaignGet(r)
    \/ \E r \in ReqIds : AuthLookup(r)
    \/ \E r \in ReqIds : AuthProvision(r)
    \/ \E r \in ReqIds : BusinessVerify(r)
    \/ \E r \in ReqIds : BusinessSave(r)
    \/ \E r \in ReqIds : DeleteFindUser(r)
    \/ \E r \in ReqIds : DeleteSaveUser(r)
    \/ \E r \in ReqIds : DeleteRun(r)
    \/ \E r \in ReqIds : BrandVerifyBusiness(r)
    \/ \E r \in ReqIds : GetOrCreateFind(r)
    \/ \E r \in ReqIds : GetOrCreateInsert(r)
    \/ \E r \in ReqIds : CompleteFind(r)
    \/ \E r \in ReqIds : BrandSave(r)
    \/ \E r \in ReqIds : CcVerifyBusiness(r)
    \/ \E r \in ReqIds : CcLoadBusiness(r)
    \/ \E r \in ReqIds : CcLoadBrand(r)
    \/ \E r \in ReqIds : CcLoadBrandAgain(r)
    \/ \E r \in ReqIds : CcCallModel(r)
    \/ \E r \in ReqIds : CcModelError(r)
    \/ \E r \in ReqIds : CcModelResponse(r)
    \/ \E r \in ReqIds : CcInsert(r)
    \/ \E r \in ReqIds : CampaignGet(r)

OwnerStart == OwnerInit /\ CrawlQuiet /\ IntelQuiet /\ AdmitQuiet

OwnerSpec == OwnerStart /\ [][OwnerNext]_vars

\* the users collection and the Business documents under business creation
\* and deletion, the has-business check and webhook events
BusinessNext ==
    \/ \E r \in ReqIds : ArriveBusinessCreate(r)
    \/ \E r \in ReqIds : ArriveBusinessDelete(r)
    \/ \E r \in ReqIds : ArriveHasBusiness(r)
    \/ \E r \in ReqIds : ArriveWebhook(r)
    \/ \E r \in ReqIds : AuthLookup(r)
    \/ \E r \in ReqIds : AuthProvision(r)
    \/ \E r \in ReqIds : CreateInsert(r)
    \/ \E r \in ReqIds : CreateFindUser(r)
    \/ \E r \in ReqIds : CreateSaveUser(r)
    \/ \E r \in ReqIds : BusinessVerify(r)
    \/ \E r \in ReqIds : DeleteFindUser(r)
    \/ \E r \in ReqIds : DeleteSaveUser(r)
    \/ \E r \in ReqIds : DeleteRun(r)
    \/ \E r \in ReqIds : CheckHasBusiness(r)
    \/ \E r \in ReqIds : WhEvent(r)
    \/ \E r \in ReqIds : WhIgnore(r)
    \/ \E r \in ReqIds : WhInsert(r)
    \/ \E r \in ReqIds : WhUpdateFind(r)
    \/ \E r \in ReqIds : WhUpdateSave(r)
    \/ \E r \in ReqIds : WhDeleteFind(r)
    \/ \E r \in ReqIds : WhDelete(r)

BusinessSpec == Init /\ [][BusinessNext]_vars

\* the users collection under webhook events and authenticated requests
UserNext ==
    \/ \E r \in ReqIds : ArriveWebhook(r)
    \/ \E r \in ReqIds : WhEvent(r)
    \/ \E r \in ReqIds : WhIgnore(r)
    \/ \E r \in ReqIds : WhInsert(r)
    \/ \E r \in ReqIds : WhUpdateFind(r)
    \/ \E r \in ReqIds : WhUpdateSave(r)
    \/ \E r \in ReqIds : WhDeleteFind(r)
    \/ \E r \in ReqIds : WhDelete(r)
    \/ \E r \in ReqIds : ArriveBrandGet(r)
    \/ \E r \in ReqIds : AuthLookup(r)
    \/ \E r \in ReqIds : AuthProvision(r)
    \/ \E r \in ReqIds : BrandVerifyBusiness(r)
    \/ \E r \in ReqIds : GetOrCreateFind(r)
    \/ \E r \in ReqIds : GetOrCreateInsert(r)

UserSpec == Init /\ [][UserNext]_vars

(***************************************************************************)
(* Application lifespan (main.py) and Database.connect_db                  *)
(***************************************************************************)
\* database.py line 30: the document_models handed to init_beanie
RegisteredModels == {"User", "Business"}

\* the Document class whose collection the handler touches next
ModelAt(pc) ==
    CASE pc \in {"auth", "auth_create"} -> {"User"}
      [] pc \in {"verify", "cc_business"} -> {"Business"}
      [] pc \in {"cc_brand", "cc_brand_again", "goc_find", "goc_insert",
                 "complete_find", "save"} -> {"Brand"}
      [] pc = "cc_await_model" -> {"Platform"}
      [] pc = "cc_insert" -> {"Campaign"}
      [] OTHER -> {}

\* the application is serving and request r's next collection is registered
CanAccess(r) ==
    /\ db.state = "up"
    /\ ModelAt(reqs[r].pc) \subseteq db.document_models

\* database.py lines 24-33, main.py line 32: startup connects and runs init_beanie
ConnectDb ==
    /\ db.state = "down"
    /\ db' = [state |-> "up", document_models |-> RegisteredModels]
    /\ UNCHANGED <<businesses, brands, campaigns, users, env, reqs>>
    /\ UNCHANGED <<crawlVars, intelVars, admitVars>>

\* database.py lines 35-37: the connection failed, startup re-raises
ConnectDbFails ==
    /\ db.state = "down"
    /\ db' = [db EXCEPT !.state = "failed"]
    /\ UNCHANGED <<businesses, brands, campaigns, users, env, reqs>>
    /\ UNCHANGED <<crawlVars, intelVars, admitVars>>

\* main.py lines 38-39, database.py lines 40-44: shutdown once no request is in flight
CloseDb ==
    /\ db.state = "up"
    /\ \A r \in ReqIds : reqs[r].pc \in {"idle", "done"}
    /\ db' = [db EXCEPT !.state = "closed"]
    /\ UNCHANGED <<businesses, brands, campaigns, users, env, reqs>>
    /\ UNCHANGED <<crawlVars, intelVars, admitVars>>

\* a handler touches a Document class init_beanie was not given: Beanie raises
\* CollectionWasNotInitialized, answered by general_exception_handler
NotInitialized(r) ==
    /\ db.state = "up"
    /\ reqs[r].pc \notin {"idle", "done"}
    /\ ~(ModelAt(reqs[r].pc) \subseteq db.document_models)
    /\ Set(r, Finish(reqs[r], general_exception_handler(
                                  Exception("CollectionWasNotInitialized", ""))))
    /\ UNCHANGED <<businesses, brands, campaigns, users, env, db>>
    /\ UNCHANGED <<crawlVars, intelVars, admitVars>>

LifespanInit ==
    /\ businesses = {NewBusiness("b1", "u1")}
    /\ brands = {}
    /\ campaigns = {}
    /\ users = {add_business(NewUser(1, "u1", TokenEmail("u1"), "None"), "b1")}
    /\ env \in Envs
    /\ db = NotConnected
    /\ reqs = [r \in ReqIds |-> IdleRequest]
    /\ CrawlQuiet
    /\ IntelQuiet
    /\ AdmitQuiet

LifespanNext ==
    \/ ConnectDb
    \/ ConnectDbFails
    \/ CloseDb
    \/ \E r \in ReqIds : db.state = "up" /\ ArriveCampaignCreate(r)
    \/ \E r \in ReqIds : db.state = "up" /\ ArriveBrandGet(r)
    \/ \E r \in ReqIds : db.state = "up" /\ ArriveBrandComplete(r)
    \/ \E r \in ReqIds : CanAccess(r) /\ AuthLookup(r)
    \/ \E r \in ReqIds : CanAccess(r) /\ AuthProvision(r)
    \/ \E r \in ReqIds : CanAccess(r) /\ CcVerifyBusiness(r)
    \/ \E r \in ReqIds : CanAccess(r) /\ CcLoadBusiness(r)
    \/ \E r \in ReqIds : CanAccess(r) /\ BrandVerifyBusiness(r)
    \/ \E r \in ReqIds : NotInitialized(r)

LifespanSpec == LifespanInit /\ [][LifespanNext]_vars

(***************************************************************************)
(* AdMasterCrawlerService: brand intel from one page                       *)
(* A text is a sequence of tokens: " " is a run of whitespace, any other   *)
(* token a word.  A color candidate is a sequence of characters.           *)
(***************************************************************************)
IsWord(t) == t # " "

\* str.split(): the words
split(text) == SelectSeq(text, IsWord)

\* str.strip(): without leading and trailing whitespace
strip(text) ==
    LET words == {i \in 1..Len(text) : IsWord(text[i])}
    IN  IF words = {} THEN <<>>
        ELSE SubSeq(text, CHOOSE i \in words : \A j \in words : i <= j,
                          CHOOSE i \in words : \A j \in words : j <= i)

\* len(): the number of characters
RECURSIVE len(_)
len(text) == IF text = <<>> THEN 0 ELSE Len(Head(text)) + len(Tail(text))

\* words joined by single spaces
Sentence(words) ==
    [i \in 1..(2 * Len(words) - 1) |-> IF i % 2 = 1 THEN words[(i + 1) \div 2] ELSE " "]

\* tag.get("content"): the attribute's value, nothing when the tag lacks it
Content(tag) == IF "content" \in DOMAIN tag THEN {tag.content} ELSE {}

\* ---- _extract_description, lines 54-67 ----
HasSixWords(p) == Len(split(p)) >= 6

\* max(paragraphs, key=len): the first of the longest
FirstLongest(paragraphs) ==
    paragraphs[CHOOSE i \in 1..Len(paragraphs) :
                 \A j \in 1..Len(paragraphs) :
                    /\ len(paragraphs[j]) <= len(paragraphs[i])
                    /\ (j < i => len(paragraphs[j]) < len(paragraphs[i]))]

\* lines 64-67: the longest paragraph of at least six words, or ""
LongestParagraph(paragraphs) ==
    IF SelectSeq(paragraphs, HasSixWords) = <<>> THEN <<>>
    ELSE FirstLongest(SelectSeq(paragraphs, HasSixWords))

\* lines 61-67 on the tag the two find() calls settled on (a Tag is always
\* truthy, empty content or not)
DescriptionFrom(desc, paragraphs) ==
    IF \E tag \in desc : \E c \in Content(tag) : c # <<>>
    THEN strip(CHOOSE c \in UNION {Content(tag) : tag \in desc} : TRUE)
    ELSE LongestParagraph(paragraphs)

extract_description(pg) ==
    DescriptionFrom(IF pg.meta_description # {} THEN pg.meta_description
                    ELSE pg.og_description,
                    pg.paragraphs)

\* ---- _normalize_hex, _is_hex_color, _extract_theme_colors, lines 124-196 ----
LowerHex == {"0", "1", "2", "3", "4", "5", "6", "7", "8", "9",
             "a", "b", "c", "d", "e", "f"}
UpperHex == {"A", "B", "C", "D", "E", "F"}

\* str.lower() on one character
LowerChar(c) ==
    CASE c = "A" -> "a" [] c = "B" -> "b" [] c = "C" -> "c"
      [] c = "D" -> "d" [] c = "E" -> "e" [] c = "F" -> "f"
      [] c = "G" -> "g" [] OTHER -> c

\* re.fullmatch(r"#?[0-9a-fA-F]{3,8}", v) on the stripped value v
FullMatchHex(v) ==
    LET digits == IF v # <<>> /\ v[1] = "#" THEN Tail(v) ELSE v
    IN  /\ Len(digits) \in 3..8
        /\ \A i \in 1..Len(digits) : digits[i] \in LowerHex \cup UpperHex

is_hex_color(value) == FullMatchHex(strip(value))

\* lines 187-191 on the stripped, lowercased value
HashAndClamp(v) ==
    SubSeq(IF v # <<>> /\ v[1] = "#" THEN v ELSE <<"#">> \o v, 1,
           IF v # <<>> /\ v[1] = "#" THEN Min(Len(v), 7) ELSE Min(Len(v) + 1, 7))

normalize_hex(value) ==
    HashAndClamp([i \in 1..Len(strip(value)) |-> LowerChar(strip(value)[i])])

\* lines 176-180: the first occurrence of each color, in order
Dedup(colors) ==
    LET first == {i \in 1..Len(colors) : \A j \in 1..(i - 1) : colors[j] # colors[i]}
        rank(i) == Cardinality({j \in first : j <= i})
    IN  [k \in 1..Cardinality(first) |-> colors[CHOOSE i \in first : rank(i) = k]]

IsHexColor(v) == is_hex_color(v)

\* line 162: the colors left out of <style> rules
NeutralColors ==
    {<<"#", "f", "f", "f", "f", "f", "f">>, <<"#", "0", "0", "0", "0", "0", "0">>,
     <<"#", "f", "5", "f", "5", "f", "5">>, <<"#", "e", "5", "e", "5", "e", "5">>,
     <<"#", "c", "c", "c", "c", "c", "c">>, <<"#", "9", "9", "9", "9", "9", "9">>,
     <<"#", "6", "6", "6", "6", "6", "6">>, <<"#", "3", "3", "3", "3", "3", "3">>}

NotNeutral(hex_color) == hex_color \notin NeutralColors

\* lines 126-174: the contents of <meta name="theme-color"> (priority 1),
\* the matches of the "#[0-9a-fA-F]{3,8}" patterns in CSS variables and
\* inline styles (priorities 2 and 3) and in <style> rules (priority 4)
CollectColors(metas, styles, rules) ==
    [i \in 1..Len(metas) |-> normalize_hex(metas[i])]
    \o [i \in 1..Len(styles) |-> normalize_hex(styles[i])]
    \o SelectSeq([i \in 1..Len(rules) |-> normalize_hex(rules[i])], NotNeutral)

\* lines 176-184: deduplicated, the first four
FirstFour(dedup) == SubSeq(dedup, 1, Min(Len(dedup), 4))

extract_theme_colors(pg) ==
    FirstFour(Dedup(CollectColors(SelectSeq(pg.theme_color, IsHexColor),
                                  pg.style_colors, pg.css_colors)))

\* ---- _detect_language, lines 198-210 ----
LowerTag(t) ==
    CASE t = "EN" -> "en" [] t = "FR" -> "fr" [] t = "CA" -> "ca" [] OTHER -> t

\* lang.split("-")[0].lower()
PrimarySubtag(lang) ==
    IF IndexOf(lang, "-") = 0 THEN [i \in 1..Len(lang) |-> LowerTag(lang[i])]
    ELSE [i \in 1..(IndexOf(lang, "-") - 1) |-> LowerTag(lang[i])]

\* lines 203-210: langdetect on texts of ten words and more
DetectFallback(text, answer) ==
    IF Len(split(text)) >= 10
    THEN [language |-> IF answer = "LangDetectException" THEN <<"en">> ELSE <<answer>>,
          detect_ran |-> TRUE]
    ELSE [language |-> <<"en">>, detect_ran |-> FALSE]

\* variant: the lang attribute is used as written
detect_language_verbatim(text, pg) ==
    IF \E lang \in pg.lang : lang # <<>>
    THEN [language |-> CHOOSE lang \in pg.lang : TRUE, detect_ran |-> FALSE]
    ELSE DetectFallback(text, pg.detect)

detect_language(text, pg) ==
    IF \E lang \in pg.lang : lang # <<>>
    THEN [language |-> PrimarySubtag(CHOOSE lang \in pg.lang : TRUE), detect_ran |-> FALSE]
    ELSE DetectFallback(text, pg.detect)

\* ---- the pages served ----
MetaTags == {{}, {<<>>}, {[content |-> <<>>]}, {[content |-> <<" ", "Fine", " ", "goods", " ">>]}}
OgTags == {{}, {[content |-> <<"Shop", " ", "online">>]},
           {[content |-> Sentence(<<"Nous", "vendons", "des", "livres", "rares", "et",
                                    "des", "cartes", "anciennes", "ici">>)]}}
ParagraphLists ==
    {<<>>,
     << <<"Short.">>,
        Sentence(<<"This", "is", "a", "sufficiently", "long", "paragraph", "for", "selection.">>) >>,
     << Sentence(<<"Extraordinarily", "comprehensive", "documentation", "notwithstanding", "everything">>),
        Sentence(<<"a", "b", "c", "d", "e", "f">>),
        Sentence(<<"g", "h", "i", "j", "k", "l">>) >>}
LangAttributes == {{}, {<<>>}, {<<"fr", "-", "CA">>}, {<<"EN">>}}
ColorCandidates ==
    {<<"#", "F", "F", "F">>,
     <<"#", "1", "a", "2", "B", "3", "c">>,
     <<"1", "A", "2", "B", "3", "C">>,
     <<"#", "1", "a", "2", "b", "3", "c", "4", "d">>,
     <<" ", "#", "a", "b", "c", "d", "e", " ">>,
     <<"r", "e", "d">>,
     <<"#", "G", "G", "G">>}
StyleColors ==
    {<<>>,
     << <<"#", "0", "0", "0", "0">> >>,
     << <<"#", "1", "a", "2", "b", "3", "c">>, <<"#", "1", "A", "2", "B", "3", "C", "f", "f">>,
        <<"#", "0", "0", "0", "0", "0", "0">>, <<"#", "1", "1", "1", "1", "1", "1">>,
        <<"#", "2", "2", "2", "2", "2", "2">>, <<"#", "3", "3", "3", "3", "3", "3">> >>}
CssColors ==
    {<<>>,
     << <<"#", "F", "F", "F", "F", "F", "F">>, <<"#", "0", "0", "0">>,
        <<"#", "4", "4", "5", "5", "6", "6">> >>}
DetectAnswers == {"es", "LangDetectException"}

IntelPages ==
    [lang : LangAttributes, meta_description : MetaTags, og_description : OgTags,
     paragraphs : ParagraphLists,
     theme_color : {<<c>> : c \in ColorCandidates}, style_colors : StyleColors,
     css_colors : CssColors,
     detect : DetectAnswers]

\* ---- AdMasterCrawlerService.crawl, lines 231-249 ----
IntelInit ==
    /\ page \in IntelPages
    /\ intel_pc = "start"
    /\ intel_result = <<>>

\* lines 47-52: fetch_html returned the document
IntelFetched ==
    /\ intel_pc = "start"
    /\ intel_pc' = "fetched"
    /\ UNCHANGED <<page, intel_result>>
    /\ UNCHANGED <<crawlVars, apiVars, admitVars>>

\* lines 47-52: the request timed out or raise_for_status raised
IntelFetchError ==
    /\ intel_pc = "start"
    /\ intel_pc' = "raised"
    /\ UNCHANGED <<page, intel_result>>
    /\ UNCHANGED <<crawlVars, apiVars, admitVars>>

\* the CrawlResult for the description extracted
IntelResult(description, pg) ==
    [description |-> description,
     brand_colors |-> extract_theme_colors(pg),
     language |-> detect_language(description, pg).language,
     detect_ran |-> detect_language(description, pg).detect_ran]

\* lines 233-249: extract and return the CrawlResult
IntelExtract ==
    /\ intel_pc = "fetched"
    /\ intel_result' = IntelResult(extract_description(page), page)
    /\ intel_pc' = "done"
    /\ UNCHANGED page
    /\ UNCHANGED <<crawlVars, apiVars, admitVars>>

IntelNext == IntelFetched \/ IntelFetchError \/ IntelExtract

\* no request is in flight while the crawler runs
ApiQuiet ==
    /\ businesses = {}
    /\ brands = {}
    /\ campaigns = {}
    /\ users = {}
    /\ env = [GEMINI_AVAILABLE |-> FALSE]
    /\ db = NotConnected
    /\ reqs = <<>>

\* a crawler constructed with its limits, about to run crawl(start_url)
CrawlStart == CrawlInit /\ ApiQuiet /\ IntelQuiet /\ AdmitQuiet

CrawlSpec == CrawlStart /\ [][CrawlNext]_vars

\* the event loop resumes the crawl after every await: client.get answers or
\* raises within its timeout (line 182), the sleep ends (line 211)
\* A pending request ends by answering or by raising; CrawlFetchError is
\* enabled whenever the request is pending, so weak fairness on it alone
\* says that the request does not stay pending for ever.
CrawlFairSpec ==
    /\ CrawlStart
    /\ [][CrawlNext]_vars
    /\ WF_vars(CrawlBegin)
    /\ WF_vars(CrawlSkip \/ CrawlGet \/ CrawlReturn)
    /\ WF_vars(CrawlFetchError)
    /\ WF_vars(CrawlSleepDone)

\* one crawler instance used for several crawl() calls, one after the other
ReuseNext ==
    \/ CrawlBegin
    \/ CrawlSkip
    \/ CrawlGet
    \/ CrawlFetchOk
    \/ CrawlFetchError
    \/ CrawlSleepDone
    \/ CrawlReturn
    \/ CrawlAgain

ReuseSpec == CrawlStart /\ [][ReuseNext]_vars

\* a brand-intel crawler about to run crawl(url)
IntelStart == IntelInit /\ ApiQuiet /\ CrawlQuiet /\ AdmitQuiet

IntelSpec == IntelStart /\ [][IntelNext]_vars

(***************************************************************************)
(* _is_valid_url on its own: one call with arguments drawn from the URLs   *)
(* below.  A word may be cut in several tokens ("apiary" is "api", "ary")  *)
(* so that text inside a word can be matched.                              *)
(***************************************************************************)
AdmitSchemes == {<<"https", ":">>, <<"HTTPS", ":">>, <<"http", ":">>, <<>>}
AdmitHosts == {"example.com", "cdn.example.com", "other.com"}
AdmitPaths ==
    {<<>>,
     <<"/", "about">>,
     <<"/", "api">>,
     <<"/", "api", "ary">>,
     <<"/", "blog", "/", "Login">>,
     <<"/", "brochure", ".PDF">>,
     <<"/", "brochure", ".pdf", "?", "page=1">>,
     <<"/", "pricing", "?", "next=", "/", "login">>,
     <<"/", "pricing", "?", "format=", ".pdf">>,
     <<"/", "a", ":", "b">>}
AdmitUrls ==
    {scheme \o <<"//", host>> \o path :
        scheme \in AdmitSchemes, host \in AdmitHosts, path \in AdmitPaths}
    \cup {<<"/", "about">>, <<"mailto", ":", "team@example.com">>}
AdmitBases == {<<"https", ":", "//", "example.com", "/">>,
               <<"https", ":", "//", "cdn.example.com", "/", "about">>}

AdmitInit ==
    /\ candidate \in [url : AdmitUrls, base_url : AdmitBases]
    /\ verdict = "none"

\* lines 34-68: _is_valid_url(url, base_url) returns
AdmitCall ==
    /\ verdict = "none"
    /\ verdict' = IF is_valid_url(candidate.url, candidate.base_url) THEN "True" ELSE "False"
    /\ UNCHANGED candidate
    /\ UNCHANGED <<crawlVars, apiVars, intelVars>>

AdmitNext == AdmitCall

AdmitStart == AdmitInit /\ ApiQuiet /\ CrawlQuiet /\ IntelQuiet

AdmitSpec == AdmitStart /\ [][AdmitNext]_vars

(***************************************************************************)
(* Properties of campaign creation and the brand endpoints (Spec)          *)
(***************************************************************************)
CampaignCreates == {r \in ReqIds : reqs[r].kind = "campaign_create"}

\* positions inside the create_campaign handler and CampaignService.create_campaign
CcHandlerPcs == {"verify", "cc_business", "cc_brand", "cc_brand_again", "cc_call",
                 "cc_await_model", "cc_insert"}

\* request r, inside the campaign-create handler, takes the step
CcStep(r) ==
    /\ reqs[r].kind = "campaign_create"
    /\ reqs[r].pc \in CcHandlerPcs
    /\ reqs'[r] # reqs[r]

Finished(r) == reqs[r].pc = "done"
Failed(r) == Finished(r) /\ reqs[r].response.status >= 400

\* the response the request got was like this
Facts_(r) == CHOOSE f \in reqs[r].ai_facts : TRUE

\* C1: a step of campaign creation changes no business, brand or user record
\* and no campaign record, except the one step that ends the request with 201,
\* which inserts exactly one Campaign (of the request's business and user);
\* so a creation that ends with an error has persisted nothing.
C1_CreateCampaignAllOrNothing ==
    [][\A r \in ReqIds : CcStep(r) =>
          /\ businesses' = businesses
          /\ brands' = brands
          /\ users' = users
          /\ IF reqs'[r].response = Created
             THEN \E c \in campaigns' \ campaigns :
                    /\ campaigns' = campaigns \cup {c}
                    /\ Cardinality(campaigns') = Cardinality(campaigns) + 1
                    /\ c.business_id = reqs[r].business_id
                    /\ c.user_id = reqs[r].user
             ELSE campaigns' = campaigns]_vars

\* one creation failed after its call to the model, another succeeded, and
\* exactly one campaign is stored
C1_Witness ==
    /\ \E r \in CampaignCreates : Failed(r) /\ reqs[r].ai_calls = 1
    /\ \E r \in CampaignCreates : Finished(r) /\ reqs[r].response = Created
    /\ Cardinality(campaigns) = 1

\* C2: the recommended_platform_id of every persisted Campaign is one of its
\* supported_platform_ids.
C2_RecommendedIsSupported ==
    \A c \in campaigns : c.recommended_platform_id \in c.supported_platform_ids

\* a campaign whose recommended platform was not the first of two listed
C2_Witness ==
    \E c \in campaigns :
        /\ c.recommended_platform_id = 2
        /\ c.supported_platform_ids = {1, 2}

CampaignsMatchCreated ==
    Cardinality(campaigns) =
        Cardinality({r \in CampaignCreates : Finished(r) /\ reqs[r].response = Created})

\* C4: when the recommended_platform_id of the model's response is in no
\* catalog entry, the creation ends with an error and has persisted no campaign.
C4_UnknownRecommendationFails ==
    /\ CampaignsMatchCreated
    /\ \A r \in CampaignCreates :
         (reqs[r].ai_facts # {} /\ Facts_(r).recommended \cap PlatformCatalog = {}) =>
             /\ Failed(r)
             /\ reqs[r].doc = {}

\* a well-formed response recommended platform 5, which it also listed, and
\* the creation failed
C4_Witness ==
    \E r \in CampaignCreates :
        /\ reqs[r].ai_facts # {}
        /\ Facts_(r).json
        /\ Facts_(r).lacks = {}
        /\ Facts_(r).recommended = {5}
        /\ 5 \in Facts_(r).cited
        /\ Failed(r)

\* C5: at most one Brand record exists per business_id.
C5_OneBrandPerBusiness ==
    \A b \in BusinessIds : Cardinality({x \in brands : x.business_id = b}) <= 1

\* C8 as stated: a response citing a platform id that is in no catalog entry,
\* as the recommended id or in all_recommendations, makes the creation fail.
C8_EveryCitedIdIsChecked ==
    \A r \in CampaignCreates :
        (reqs[r].ai_facts # {}
         /\ ~((Facts_(r).recommended \cup Facts_(r).cited) \subseteq PlatformCatalog))
        => Failed(r)

\* C8 amended: only the recommended_platform_id is checked against the
\* catalog (an unknown one makes the creation fail); an unknown platform_id
\* in all_recommendations raises nothing and is left out of the campaign's
\* supported_platform_ids.
C8_OnlyRecommendedIdIsChecked ==
    \A r \in CampaignCreates :
        /\ (reqs[r].ai_facts # {} /\ Facts_(r).recommended \cap PlatformCatalog = {})
             => Failed(r)
        /\ reqs[r].pc = "cc_insert" =>
             \A d \in reqs[r].doc :
                 /\ d.recommended_platform_id \in PlatformCatalog
                 /\ d.supported_platform_ids = Facts_(r).cited \cap PlatformCatalog

\* a creation about to insert its campaign although the response listed
\* platform 5
C8_Witness ==
    \E r \in CampaignCreates :
        /\ reqs[r].pc = "cc_insert"
        /\ 5 \in Facts_(r).cited
        /\ Facts_(r).recommended = {1}

\* C9 as stated: a response that is not JSON or lacks any part of the
\* documented schema makes the creation fail.
C9_AnySchemaGapIsFatal ==
    \A r \in CampaignCreates :
        (reqs[r].ai_facts # {} /\ (~Facts_(r).json \/ Facts_(r).lacks # {}))
        => Failed(r)

\* the parts of the schema whose absence raises
FatalGaps == {"recommended_platform_id", "recommended_platform_name",
              "all_recommendations", "entry.platform_id", "entry.name", "entry.score"}

\* C9 amended: a response that is not JSON (bare or inside a markdown code
\* fence), or is JSON without recommended_platform_id, recommended_platform_name
\* or all_recommendations, or with an entry without platform_id, name or
\* score, makes the creation fail with nothing persisted; a missing
\* ai_reasoning or ai_analysis, or a score outside 0.0-1.0, is accepted.
C9_FatalSchemaGaps ==
    /\ CampaignsMatchCreated
    /\ \A r \in CampaignCreates :
         (reqs[r].ai_facts # {} /\ (~Facts_(r).json \/ Facts_(r).lacks \cap FatalGaps # {}))
         => (Failed(r) /\ reqs[r].response = Response(500, "INTERNAL_SERVER_ERROR")
             /\ reqs[r].doc = {})

\* a creation failed on a response whose only gap is an entry without a name
C9_Witness ==
    \E r \in CampaignCreates :
        /\ reqs[r].ai_facts # {}
        /\ Facts_(r).json
        /\ Facts_(r).lacks = {"entry.name"}
        /\ Facts_(r).recommended = {1}
        /\ 1 \in Facts_(r).cited
        /\ Failed(r)

\* the configuration the recommendation step requires is present
Configured ==
    /\ env.GEMINI_AVAILABLE
    /\ (env.GOOGLE_API_KEY \/ env.GEMINI_API_KEY)
    /\ (env.GEMINI_MODEL \/ env.DEFAULT_MODEL)

\* C10: a campaign creation issues at most one request to the model; it has
\* issued exactly one when it ends after its preconditions passed (business
\* of the user, goal resolved, configuration present), whatever the outcome;
\* without API key or without model name it issues none and ends with an error.
C10_ModelCalledOnce ==
    \A r \in CampaignCreates :
        /\ reqs[r].ai_calls <= 1
        /\ (reqs[r].ai_facts # {} \/ reqs[r].pc \in {"cc_await_model", "cc_insert"})
             => reqs[r].ai_calls = 1
        /\ (Finished(r)
            /\ get_business_by_id(reqs[r].business_id, reqs[r].user) # {}
            /\ ResolveGoal(reqs[r].goal) # {})
             => IF Configured
                THEN reqs[r].ai_calls = 1
                ELSE reqs[r].ai_calls = 0 /\ reqs[r].response.status = 500
        /\ (~(env.GOOGLE_API_KEY \/ env.GEMINI_API_KEY) \/ ~(env.GEMINI_MODEL \/ env.DEFAULT_MODEL))
             => reqs[r].ai_calls = 0

\* a creation ended with an error after its one call to the model
C10_Witness ==
    \E r \in CampaignCreates :
        /\ Failed(r)
        /\ reqs[r].ai_facts = {}
        /\ reqs[r].ai_calls = 1

\* the request passed the ownership check and found its business
BusinessFound(r) ==
    /\ get_business_by_id(reqs[r].business_id, reqs[r].user) # {}
    /\ Business_get(reqs[r].business_id) # {}

\* C11 as stated: a creation whose advertising_goal is a string outside the
\* four-entry table ends with the validation error.
C11_UnmappedGoalIsRejected ==
    \A r \in CampaignCreates :
        (Finished(r) /\ BusinessFound(r)
         /\ reqs[r].goal.advertising_goal # "None"
         /\ reqs[r].goal.advertising_goal \notin ConversionGoals)
        => reqs[r].response = Response(400, "VALIDATION_ERROR")

\* the goal fields of the request resolve to no conversion goal
GoalRejected(goal) ==
    \/ goal.advertising_goal \notin {"None", ""} /\ goal.advertising_goal \notin ConversionGoals
    \/ goal.advertising_goal \in {"None", ""} /\ goal.conversion_goal = "None"

\* C11 amended: a non-empty advertising_goal decides alone (mapped through
\* the table, 400 when it is not in the table, whatever conversion_goal says);
\* an absent or empty advertising_goal leaves the explicit conversion_goal to
\* decide; with neither the request ends with 400.  A rejected request
\* persists nothing, and an inserted campaign carries the resolved goal.
C11_GoalResolution ==
    /\ [](\A r \in CampaignCreates :
            (Finished(r) /\ BusinessFound(r)) =>
                (reqs[r].response = Response(400, "VALIDATION_ERROR")
                    <=> GoalRejected(reqs[r].goal)))
    /\ [][\A r \in ReqIds : CcStep(r) =>
            /\ GoalRejected(reqs[r].goal) => campaigns' = campaigns
            /\ \A c \in campaigns' \ campaigns :
                 c.conversion_goal =
                    IF reqs[r].goal.advertising_goal \notin {"None", ""}
                    THEN reqs[r].goal.advertising_goal
                    ELSE reqs[r].goal.conversion_goal]_vars

\* one creation was rejected for an advertising_goal outside the table,
\* another with an empty advertising_goal stored its explicit conversion_goal
C11_Witness ==
    /\ \E r \in CampaignCreates :
         /\ Finished(r)
         /\ reqs[r].goal.advertising_goal = "bogus"
         /\ reqs[r].response.status = 400
    /\ \E r \in CampaignCreates :
         /\ reqs[r].goal.advertising_goal = ""
         /\ reqs[r].response = Created
    /\ \E c \in campaigns : c.conversion_goal = "brand-awareness"

(***************************************************************************)
(* Properties of the users collection (UserSpec)                           *)
(***************************************************************************)
Webhooks == {r \in ReqIds : reqs[r].kind = "webhook"}

\* the step with which webhook request r answers success
WebhookSucceeds(r) ==
    /\ reqs[r].kind = "webhook"
    /\ reqs[r].pc # "done"
    /\ reqs'[r].pc = "done"
    /\ reqs'[r].response = WebhookSuccess

\* C12: when the webhook handler answers success for user.created or
\* user.updated of identity X, a user record with clerk_id X carrying the
\* event's email and name exists; when it answers success for user.deleted
\* of X, no user record with clerk_id X exists.
C12_WebhookUpsertsAndDeletes ==
    [][\A r \in ReqIds : WebhookSucceeds(r) =>
          LET type == reqs[r].data.type
              data == reqs[r].data.data
          IN  /\ type \in {"user.created", "user.updated"} =>
                   \E u \in users' : /\ u.clerk_id = data.id
                                     /\ u.email = data.email_addresses[1]
                                     /\ u.first_name = data.first_name
              /\ type = "user.deleted" =>
                   \A u \in users' : u.clerk_id # data.id]_vars

\* C13: at most one user record exists per clerk_id.
C13_OneUserPerClerkId ==
    \A x \in UserIds : Cardinality(get_by_clerk_id(x)) <= 1

\* the handling of webhook request r raised an exception
WebhookRaised(r) ==
    \/ ~reqs[r].data.json
    \/ PayloadError(reqs[r].data.type, reqs[r].data.data) # {}

\* C14: a request whose handling raised an exception that is neither an
\* AdMaster error nor a schema validation error is answered with the generic
\* internal error, whatever the exception was; the webhook endpoint included.
C14_UnhandledErrorsAreGeneric ==
    \A r \in Webhooks :
        (Finished(r) /\ WebhookRaised(r)) => reqs[r].response = UnhandledException

(***************************************************************************)
(* Properties of startup (LifespanSpec)                                    *)
(***************************************************************************)
\* C15: once startup has run connect_db, all five document classes (users,
\* businesses, brands, platforms, campaigns) are registered with the store.
C15_AllCollectionsInitialized ==
    db.state = "up" => DocumentModels \subseteq db.document_models

(***************************************************************************)
(* Properties of the deep content crawler (CrawlSpec)                      *)
(***************************************************************************)
\* the links the crawler takes from the page at url
LinksFrom(url) ==
    IF Fetchable(url) THEN extract_internal_links(HrefsAt(url), url, base_domain) ELSE {}

\* the URLs within d link hops of the start URL
RECURSIVE ReachableWithin(_)
ReachableWithin(d) ==
    IF d = 0 THEN {start_url}
    ELSE LET prev == ReachableWithin(d - 1) IN
         prev \cup UNION {LinksFrom(u) : u \in prev}

NoDuplicates(s) == \A i, j \in 1..Len(s) : s[i] = s[j] => i = j

\* C6: when every fetch succeeded, a finished crawl has recorded exactly
\* min(N, max_pages) pages, N being the number of distinct admissible URLs
\* (the seed included) within max_depth link hops of the seed, and no URL
\* occurs twice in the per-page record list.
C6_CrawlRecordsMinOfSiteAndCap ==
    (crawl_pc = "done" /\ ~fetch_failed) =>
        /\ Len(crawl_result.pages) = Min(Cardinality(ReachableWithin(max_depth)), max_pages)
        /\ crawl_result.pages_crawled = Len(crawl_result.pages)
        /\ NoDuplicates(crawl_result.pages)

\* a finished crawl without failures that the page cap cut short: more URLs
\* were in reach than max_pages, and one was enqueued more than once
C6_Witness ==
    /\ crawl_pc = "done"
    /\ ~fetch_failed
    /\ max_pages >= 2
    /\ Cardinality(ReachableWithin(max_depth)) > max_pages
    /\ Len(crawl_result.pages) = max_pages
    /\ queue # <<>>

FrontierEmpty == queue = <<>>

PageCapReached == Cardinality(visited_urls) >= max_pages

\* this step takes an item deeper than max_depth off the queue
TooDeepDequeued ==
    /\ crawl_pc = "loop"
    /\ queue # <<>>
    /\ Head(queue)[2] > max_depth
    /\ queue' = Tail(queue)

\* this step issues client.get
FetchIssued == fetch_log' # fetch_log

C20_NoUrlRequestedTwice == NoDuplicates(fetch_log)

\* this step ends the request for the dequeued URL without a page
FetchRaised == crawl_pc = "get" /\ crawl_pc' # "sleep"

\* C21: when the fetch or parse of a dequeued URL raises, crawl() does not
\* raise, no page record is added, no link is enqueued, the records and the
\* visited set of earlier pages are unchanged, and the loop goes on: at the
\* loop head with items left and the cap not reached the next item is taken.
C21_FailedUrlIsSkipped ==
    [][/\ FetchRaised =>
            /\ crawl_pc' = "loop"
            /\ crawled_content' = crawled_content
            /\ visited_urls' = visited_urls
            /\ queue' = queue
            /\ enqueued' = enqueued
       /\ (crawl_pc = "loop" /\ ~FrontierEmpty /\ ~PageCapReached) => queue' = Tail(queue)
       /\ crawl_pc' = "raised" => fetch_log' = <<>>]_vars

\* a finished crawl in which a URL's only fetch failed and a URL requested
\* later was recorded
C21_Witness ==
    /\ crawl_pc = "done"
    /\ fetch_failed
    /\ \E i, j \in 1..Len(fetch_log) :
         /\ i < j
         /\ fetch_log[i] \notin SeqToSet(crawl_result.pages)
         /\ fetch_log[j] \in SeqToSet(crawl_result.pages)
         /\ \A k \in 1..Len(fetch_log) : fetch_log[k] = fetch_log[j] => k > i

\* C22: fetches are sequential (a request is issued only while none is
\* pending) and the delay step runs between every two successive requests,
\* whether the earlier one succeeded or failed.
C22_DelayBetweenSuccessiveFetches ==
    [][FetchIssued =>
          /\ crawl_pc # "get"
          /\ since_fetch \in {"none", "slept"}]_vars

\* C23: a result returned by one crawl() call is not changed by a later
\* call on the same instance: its pages list still holds the pages it was
\* returned with, as many as its pages_crawled says.
C23_ReturnedResultIsNotChanged ==
    \A k \in 1..Len(earlier) :
        earlier[k].returned =>
            /\ PagesOf(earlier[k]) = earlier[k].pages
            /\ Len(PagesOf(earlier[k])) = earlier[k].pages_crawled

\* C24: for every accepted seed the URL enqueued at depth 0, which is also
\* the base_url returned, has scheme https.
C24_SeedIsForcedToHttps ==
    /\ crawl_pc \in {"loop", "get", "sleep", "done"} =>
          urlparse(start_url).scheme = "https"
    /\ (crawl_pc = "loop" /\ fetch_log = <<>> /\ queue # <<>>) =>
          (Head(queue)[2] = 0 /\ urlparse(Head(queue)[1]).scheme = "https")
    /\ crawl_pc = "done" => urlparse(crawl_result.base_url).scheme = "https"

\* the queue changes at its ends only: the head is taken or items are appended
ServedFifo ==
    \/ queue' = queue
    \/ queue # <<>> /\ queue' = Tail(queue)
    \/ Len(queue') > Len(queue) /\ SubSeq(queue', 1, Len(queue)) = queue

\* the depths of the queued items never decrease along the queue and start
\* no lower than the depth of the item in hand
DepthsAscend ==
    /\ \A i, j \in 1..Len(queue) : i < j => queue[i][2] <= queue[j][2]
    /\ \A i \in 1..Len(queue) : cur # <<>> => cur[2] <= queue[i][2]

\* this step appends a page record: the page of the item in hand
PageRecorded ==
    /\ crawled_content' # crawled_content
    /\ Len(crawled_content') > 0

\* the queue is served in order, the item in hand never gets shallower, and
\* a page is recorded for the item in hand only, within the depth cap
BreadthFirstStep ==
    /\ crawl_pc # "start" => ServedFifo
    /\ (cur # <<>> /\ cur' # cur) => cur'[2] >= cur[2]
    /\ PageRecorded =>
          /\ crawled_content' = Append(crawled_content, cur[1])
          /\ cur' = cur
          /\ cur[2] <= max_depth

\* C25: the queue is served first-in-first-out, every item in it has depth
\* at most max_depth, the item in hand never gets shallower, and a page is
\* recorded for the item in hand only, at depth at most max_depth: the
\* pages are recorded in non-decreasing depth order.
C25_BreadthFirstWithinDepth ==
    /\ [](DepthsAscend /\ \A i \in 1..Len(queue) : queue[i][2] <= max_depth)
    /\ [][BreadthFirstStep]_vars

\* a finished crawl that recorded pages at depths 0, 1 and 2
C25_Witness ==
    /\ crawl_pc = "done"
    /\ Len(crawl_result.pages) = 3
    /\ cur[2] = 2
    /\ crawl_result.pages[3] = cur[1]

\* C27: whatever the site, the caps and the failures, crawl() eventually
\* returns, and in the result returned pages_crawled is the length of the
\* page list, the size of the visited set, and at most max_pages.
C27_CrawlTerminatesWithinCap ==
    /\ <>(crawl_pc = "done")
    /\ [](crawl_pc = "done" =>
            /\ crawl_result.returned
            /\ crawl_result.pages_crawled = Len(crawl_result.pages)
            /\ crawl_result.pages_crawled = Cardinality(visited_urls)
            /\ crawl_result.pages_crawled <= max_pages)

\* a crawl returned after failed and successful fetches, its page list as
\* long as the cap allows but shorter than its request history
C27_Witness ==
    /\ crawl_pc = "done"
    /\ fetch_failed
    /\ max_pages >= 2
    /\ crawl_result.pages_crawled = max_pages
    /\ Len(fetch_log) > max_pages

\* an href of the page at url, made absolute and stripped of its fragment
Absolute(url, href) == RemoveFragment(urljoin(url, href))

\* the URLs the crawl discovered and put in the queue or requested
DiscoveredUrls ==
    enqueued
    \cup (({queue[i][1] : i \in 1..Len(queue)}
           \cup SeqToSet(fetch_log)
           \cup {cur[i] : i \in {1} \cap DOMAIN cur}) \ {start_url})

\* C7: every discovered URL that is enqueued or fetched has scheme https and
\* the seed's network location.
C7_DiscoveredUrlsAreHttpsSameDomain ==
    \A u \in DiscoveredUrls :
        /\ urlparse(u).scheme = "https"
        /\ urlparse(u).netloc = urlparse(start_url).netloc

\* a page carrying a plain-http link and a link to another host was parsed,
\* its links were extracted and some were enqueued
C7_Witness ==
    /\ crawl_pc = "sleep"
    /\ cur[2] < max_depth
    /\ enqueued # {}
    /\ \E h \in HrefsAt(cur[1]) : urlparse(Absolute(cur[1], h)).scheme = "http"
    /\ \E h \in HrefsAt(cur[1]) :
         /\ urlparse(Absolute(cur[1], h)).scheme = "https"
         /\ urlparse(Absolute(cur[1], h)).netloc = "other.com"


(***************************************************************************)
(* Properties of the URL admission filter (AdmitSpec)                      *)
(***************************************************************************)
\* the segments of a path: the runs of tokens between its "/" tokens
Segments(path) ==
    {SubSeq(path, i, j) : i \in 1..Len(path), j \in 1..Len(path)} \cap
    {SubSeq(path, i, j) : <<i, j>> \in
        {ij \in (1..Len(path)) \X (1..Len(path)) :
            /\ ij[1] <= ij[2]
            /\ \A k \in ij[1]..ij[2] : path[k] # "/"
            /\ (ij[1] > 1 => path[ij[1] - 1] = "/")
            /\ (ij[2] < Len(path) => path[ij[2] + 1] = "/")}}

\* the denylisted segment names: login, signup, ...
DenylistedSegments == {Tail(p) : p \in skip_paths}

\* the five admission conditions
FiveConditions(url, base_url) ==
    /\ ":" \in SeqToSet(url)
    /\ urlparse(url).scheme = "https"
    /\ urlparse(url).netloc = urlparse(base_url).netloc
    /\ ~(url # <<>> /\ LowerTok(url[Len(url)]) \in skip_extensions)
    /\ Segments(Lower(urlparse(url).path)) \cap DenylistedSegments = {}

\* C26: _is_valid_url admits a URL if and only if the five admission
\* conditions hold; a same-domain https URL whose path has no denylisted
\* segment and no denylisted extension is never rejected.
C26_AdmitsIffFiveConditions ==
    verdict # "none" =>
        (verdict = "True" <=> FiveConditions(candidate.url, candidate.base_url))

(***************************************************************************)
(* Properties of the brand-intel extractor (IntelSpec)                     *)
(***************************************************************************)
IntelDone == intel_pc = "done"

\* '#' followed by six lowercase hex digits
IsRrggbb(color) ==
    /\ Len(color) = 7
    /\ color[1] = "#"
    /\ \A i \in 2..7 : color[i] \in LowerHex

\* C16: every color string returned by _extract_theme_colors is '#'
\* followed by exactly six lowercase hex digits.
C16_ColorsAreRrggbb ==
    IntelDone =>
        \A i \in 1..Len(intel_result.brand_colors) : IsRrggbb(intel_result.brand_colors[i])

\* the non-empty contents of a meta tag
PresentContent(tags) == {c \in UNION {Content(tag) : tag \in tags} : c # <<>>}

\* the texts among which the fallback picks: at least six words
Eligible(paragraphs) == {i \in 1..Len(paragraphs) : Len(split(paragraphs[i])) >= 6}

\* C17: the description is the trimmed content of the description meta tag
\* when that content is present, else the trimmed og:description content
\* when present, else the longest paragraph of at least six words, else "".
C17_DescriptionPrefersPresentContent ==
    IntelDone =>
        IF PresentContent(page.meta_description) # {}
        THEN \E c \in PresentContent(page.meta_description) : intel_result.description = strip(c)
        ELSE IF PresentContent(page.og_description) # {}
        THEN \E c \in PresentContent(page.og_description) : intel_result.description = strip(c)
        ELSE IF Eligible(page.paragraphs) # {}
        THEN \E i \in Eligible(page.paragraphs) :
                /\ intel_result.description = page.paragraphs[i]
                /\ \A j \in Eligible(page.paragraphs) :
                      len(page.paragraphs[j]) <= len(page.paragraphs[i])
        ELSE intel_result.description = <<>>

\* language is lang's part before the first "-", in lowercase
IsLowercasePrimarySubtag(language, lang) ==
    /\ Len(language) <= Len(lang)
    /\ \A i \in 1..Len(language) : language[i] # "-" /\ language[i] = LowerTag(lang[i])
    /\ (Len(language) < Len(lang) => lang[Len(language) + 1] = "-")

\* C18 as stated: whenever <html> carries a lang attribute, empty or not,
\* the language is its lowercase primary subtag and detection is not run.
C18_AnyLangAttributeWins ==
    IntelDone =>
        \A lang \in page.lang :
            /\ IsLowercasePrimarySubtag(intel_result.language, lang)
            /\ ~intel_result.detect_ran

\* detection ran and gave an answer
DetectionSucceeded == intel_result.detect_ran /\ page.detect # "LangDetectException"

\* C18 amended: a non-empty lang attribute gives its lowercase primary
\* subtag without running detection; with the attribute absent or empty the
\* language is "en" unless detection ran and succeeded.
C18_NonEmptyLangAttributeWins ==
    IntelDone =>
        /\ \A lang \in page.lang :
              lang # <<>> =>
                 /\ IsLowercasePrimarySubtag(intel_result.language, lang)
                 /\ ~intel_result.detect_ran
        /\ (page.lang \subseteq {<<>>} /\ ~DetectionSucceeded) => intel_result.language = <<"en">>

\* fr-CA over a description of ten words that detection would call "es"
C18_Witness ==
    /\ IntelDone
    /\ page.lang = {<<"fr", "-", "CA">>}
    /\ Len(split(intel_result.description)) >= 10
    /\ page.detect = "es"
    /\ intel_result.language = <<"fr">>
    /\ ~intel_result.detect_ran


(***************************************************************************)
(* Ownership of businesses and campaigns                                   *)
(***************************************************************************)
\* the requests that address a Business or a Campaign by id
Addressing == {"business_get", "business_update", "business_delete", "brand_get",
               "brand_update", "brand_complete", "campaign_create", "campaign_get"}

\* request r is authenticated as a user other than the owner of the stored
\* record it addresses
Foreign(r) ==
    /\ reqs[r].kind \in Addressing
    /\ IF reqs[r].kind = "campaign_get"
       THEN \E c \in campaigns : c.id = reqs[r].campaign_id /\ c.user_id # reqs[r].user
       ELSE \E b \in businesses : b.id = reqs[r].business_id /\ b.user_id # reqs[r].user

\* this step is a step of request r
StepOf(r) == reqs'[r] # reqs[r]

\* the step ends request r with a 404 answer, or does not end it
NotFoundIfEnded(r) == reqs'[r].pc = "done" => reqs'[r].response.status = 404

\* the only write is get_current_user's insert of the caller's own user record
OnlyProvisionsCaller(r) ==
    \/ UNCHANGED users
    \/ /\ reqs[r].pc = "auth_create"
       /\ users \subseteq users'
       /\ \A u \in users' \ users : u.clerk_id = reqs[r].user /\ u.businesses = <<>>

\* C28 as stated: a request authenticated as user A that addresses a Business
\* or Campaign of another user B ends in not-found, and no step of it changes
\* any stored record
C28_ForeignRequestChangesNoRecord ==
    [][\A r \in ReqIds :
          StepOf(r) /\ Foreign(r) =>
              /\ NotFoundIfEnded(r)
              /\ UNCHANGED <<businesses, brands, campaigns, users>>]_vars

\* C28 amended: a request authenticated as user A that addresses a Business or
\* Campaign of another user B ends in not-found, and no step of it changes a
\* Business, Brand or Campaign record; the one record it may write is A's own
\* user record, inserted by get_current_user when A is seen for the first time
C28_OwnershipIsolation ==
    [][\A r \in ReqIds :
          StepOf(r) /\ Foreign(r) =>
              /\ NotFoundIfEnded(r)
              /\ UNCHANGED <<businesses, brands, campaigns>>
              /\ OnlyProvisionsCaller(r)]_vars

\* two requests of u2, one to delete u1's business and one to read u1's
\* campaign, were both answered 404 and the records are still stored
C28_Witness ==
    \E r1, r2 \in ReqIds :
        /\ Foreign(r1) /\ reqs[r1].kind = "business_delete"
        /\ Foreign(r2) /\ reqs[r2].kind = "campaign_get"
        /\ reqs[r1].pc = "done" /\ reqs[r1].response.status = 404
        /\ reqs[r2].pc = "done" /\ reqs[r2].response.status = 404
        /\ \E u \in users : u.clerk_id = reqs[r1].user


(***************************************************************************)
(* The users' businesses lists                                             *)
(***************************************************************************)
\* no request is being served
NoRequestInFlight == \A r \in ReqIds : reqs[r].pc \in {"idle", "done"}

\* the ids of the Business records of the user with this clerk_id
BusinessesOf(clerk_id) == {b.id : b \in {x \in businesses : x.user_id = clerk_id}}

\* C29: once the requests and webhook events have been served, every user
\* record's businesses list holds exactly the ids of the Business records of
\* that user, and every answer of the has-business check has has_business
\* true exactly when business_count is not 0
C29_BusinessListsMatchRecords ==
    NoRequestInFlight =>
        /\ \A u \in users : SeqToSet(u.businesses) = BusinessesOf(u.clerk_id)
        /\ \A r \in ReqIds :
              reqs[r].kind = "has_business" /\ reqs[r].pc = "done" =>
                  (reqs[r].response.has_business <=> reqs[r].response.business_count # 0)


(***************************************************************************)
(* References to businesses                                                *)
(***************************************************************************)
\* a Business record with this id is stored
BusinessExists(business_id) == \E b \in businesses : b.id = business_id

\* C30: in every reachable state each stored Brand and each stored Campaign
\* has the business_id of a stored Business; so none is left behind by
\* delete_business and none is inserted for a business deleted meanwhile
C30_BusinessIdReferencesExist ==
    /\ \A b \in brands : BusinessExists(b.business_id)
    /\ \A c \in campaigns : BusinessExists(c.business_id)

====
